---- MODULE Spec2Model ----
(***************************************************************************)
(* State-machine model of the eil-rs SDK: the voucher coordinator          *)
(* (src/src/voucher.rs), the type-state builder (src/src/builder.rs) and   *)
(* the cross-chain executor (src/src/executor.rs).                         *)
(*                                                                         *)
(* Rust values are encoded as follows:                                     *)
(*   Option<T>      None is << >>, Some(x) is <<x>>                        *)
(*   Result<T>      [ok |-> TRUE, ...] or [ok |-> FALSE, err |-> e]        *)
(*   a panic        [ok |-> FALSE, err |-> [kind |-> "Panic", ...]]        *)
(*   HashMap<K,V>   a function whose DOMAIN is the set of keys             *)
(*   Address        a natural number, 0 being Address::ZERO                *)
(***************************************************************************)
EXTENDS Integers, Sequences, FiniteSets, TLC

VARIABLES
    vouchers,        \* VoucherCoordinator.vouchers: ref_id -> InternalVoucherInfo
    phase,           \* which value of the type-state builder the caller holds
    network_env,     \* NetworkEnvironment (config) of the sdk
    account,         \* CrossChainBuilder.account: Option<account>
    batches,         \* CrossChainBuilder.batches: Vec<BatchBuilder>
    cur,             \* the BatchBuilder the caller holds: Option<BatchBuilder>
    is_built,        \* CrossChainBuilder.is_built
    last,            \* the most recent call and what it returned
    exec,            \* the CrossChainExecutor the caller holds: Option<executor>
    exec_pc,         \* position of execute() in its code
    batch_statuses,  \* execute's local Vec<BatchStatusInfo>
    cur_idx,         \* index of the batch execute_single_batch is working on
    callbacks,       \* the ExecCallbackData values the callback of this execute call has received
    elapsed,         \* start_time.elapsed().as_secs()
    ticks,           \* number of loop iterations execute has started
    runs,            \* number of calls of execute on the executor
    reverting        \* indexes of the batches whose user operation reverts on its chain

coordVars == <<vouchers>>
builderVars == <<phase, network_env, account, batches, cur, is_built>>
execVars == <<exec, exec_pc, batch_statuses, cur_idx, callbacks, elapsed, ticks, runs, reverting>>
vars == <<vouchers, phase, network_env, account, batches, cur, is_built, last,
          exec, exec_pc, batch_statuses, cur_idx, callbacks, elapsed, ticks, runs, reverting>>

-----------------------------------------------------------------------------
(* Bounds of the model *)

\* batch indexes a caller of the bare coordinator passes are 0..MaxIndex
MaxIndex == 1
\* number of batches one builder starts
MaxBatches == 2
\* number of loop iterations of one execute call that select a batch
MaxTicks == 3
\* number of batches handed to CrossChainExecutor::new directly
MaxExecBatches == 2
\* number of execute calls on one executor
MaxRuns == 2

-----------------------------------------------------------------------------
(* Option, Result and error values *)

None == << >>
Some(x) == <<x>>
IsSome(o) == o /= << >>
Unwrap(o) == o[1]

Ok == [ok |-> TRUE]
OkWith(v) == [ok |-> TRUE, value |-> v]
Err(e) == [ok |-> FALSE, err |-> e]
IsErr(r, k) == (~r.ok) /\ r.err.kind = k

VoucherNotFound(r) == [kind |-> "VoucherNotFound", ref_id |-> r]
DuplicateVoucher(r) == [kind |-> "DuplicateVoucher", ref_id |-> r]
VoucherAlreadyUsed(r) == [kind |-> "VoucherAlreadyUsed", ref_id |-> r]
VoucherNotConsumed(r, c) == [kind |-> "VoucherNotConsumed", ref_id |-> r, chain_id |-> c]
UnsupportedChain(c) == [kind |-> "UnsupportedChain", chain_id |-> c]
InvalidAddress(c) == [kind |-> "InvalidAddress", chain_id |-> c]
Generic(m) == [kind |-> "Generic", msg |-> m]
Panic(m) == [kind |-> "Panic", msg |-> m]
AccountNotSet == [kind |-> "AccountNotSet"]
AccountAlreadySet == [kind |-> "AccountAlreadySet"]
BuilderAlreadyBuilt == [kind |-> "BuilderAlreadyBuilt"]
UserOpNotSigned == [kind |-> "UserOpNotSigned"]
ExecutionTimeout(s) == [kind |-> "ExecutionTimeout", seconds |-> s]
InvalidVariableName(n) == [kind |-> "InvalidVariableName", name |-> n]
ExecutionAlreadyStarted == [kind |-> "ExecutionAlreadyStarted"]

\* all orders in which the elements of a finite set can be visited
Orders(S) == { o \in [1..Cardinality(S) -> S] : \A x \in S : \E i \in DOMAIN o : o[i] = x }

-----------------------------------------------------------------------------
(* Domain values the callers pass in *)

RefIds == {"v1", "v2"}
ChainIds == {1, 10, 42161}

\* MultichainToken: name and deployments (chain id -> address)
\* create_test_token("USDC", vec![1, 10, 42161]): the i-th chain gets address i + 1
USDC == [name |-> "USDC", deployments |-> [c \in {1, 10, 42161} |-> IF c = 1 THEN 1 ELSE IF c = 10 THEN 2 ELSE 3]]
\* a token deployed on chain 1 only
LOCAL1 == [name |-> "LOCAL1", deployments |-> [c \in {1} |-> 1]]
\* a token deployed on chain 10 only
LOCAL10 == [name |-> "LOCAL10", deployments |-> [c \in {10} |-> 1]]

Fixed(a) == [kind |-> "Fixed", value |-> a]
Runtime(n) == [kind |-> "Runtime", name |-> n]
TokenAmount(t, a, d) == [token |-> t, amount |-> a, min_provider_deposit |-> d]

SdkVoucherRequest(r, s, d, ts, t) ==
    [ref_id |-> r, source_chain_id |-> s, destination_chain_id |-> d, tokens |-> ts, target |-> t]

-----------------------------------------------------------------------------
(* VoucherCoordinator *)

InternalVoucherInfo(v, s) ==
    [voucher |-> v, source_batch_index |-> s, dest_batch_index |-> None,
     voucher_request |-> None, allowed_xlps |-> None, signed_voucher |-> None]

EmptyCoordinator == [r \in {} |-> None]

Insert(m, k, x) == [r \in (DOMAIN m) \cup {k} |-> IF r = k THEN x ELSE m[r]]

\* each coordinator method is a function from the map (and the arguments) to
\* the returned Result and the map it leaves behind
Ret(res, m) == [result |-> res, vouchers |-> m]

\* a register without the contains_key check: HashMap::insert replaces the entry
RegisterOverwrites(m, voucher, source_batch_index) ==
    Ret(Ok, Insert(m, voucher.ref_id, InternalVoucherInfo(voucher, source_batch_index)))

\* a register that does not record the batch index it was given
RegisterDropsIndex(m, voucher, source_batch_index) ==
    IF voucher.ref_id \in DOMAIN m
    THEN Ret(Err(DuplicateVoucher(voucher.ref_id)), m)
    ELSE Ret(Ok, Insert(m, voucher.ref_id, InternalVoucherInfo(voucher, 0)))

Register(m, voucher, source_batch_index) ==
    IF voucher.ref_id \in DOMAIN m
    THEN Ret(Err(DuplicateVoucher(voucher.ref_id)), m)
    ELSE Ret(Ok, Insert(m, voucher.ref_id, InternalVoucherInfo(voucher, source_batch_index)))

\* a mark_consumed without the is_some check
MarkConsumedOverwrites(m, ref_id, dest_batch_index) ==
    IF ref_id \notin DOMAIN m
    THEN Ret(Err(VoucherNotFound(ref_id)), m)
    ELSE Ret(Ok, [m EXCEPT ![ref_id].dest_batch_index = Some(dest_batch_index)])

\* a mark_consumed that reports a used voucher as missing
MarkConsumedWrongError(m, ref_id, dest_batch_index) ==
    IF ref_id \notin DOMAIN m
    THEN Ret(Err(VoucherNotFound(ref_id)), m)
    ELSE IF IsSome(m[ref_id].dest_batch_index)
    THEN Ret(Err(VoucherNotFound(ref_id)), m)
    ELSE Ret(Ok, [m EXCEPT ![ref_id].dest_batch_index = Some(dest_batch_index)])

MarkConsumed(m, ref_id, dest_batch_index) ==
    IF ref_id \notin DOMAIN m
    THEN Ret(Err(VoucherNotFound(ref_id)), m)
    ELSE IF IsSome(m[ref_id].dest_batch_index)
    THEN Ret(Err(VoucherAlreadyUsed(ref_id)), m)
    ELSE Ret(Ok, [m EXCEPT ![ref_id].dest_batch_index = Some(dest_batch_index)])

Get(m, ref_id) ==
    IF ref_id \in DOMAIN m THEN OkWith(m[ref_id]) ELSE Err(VoucherNotFound(ref_id))

SetVoucherRequest(m, ref_id, voucher_request) ==
    IF ref_id \notin DOMAIN m
    THEN Ret(Err(VoucherNotFound(ref_id)), m)
    ELSE Ret(Ok, [m EXCEPT ![ref_id].voucher_request = Some(voucher_request)])

SetAllowedXlps(m, ref_id, xlps) ==
    IF ref_id \notin DOMAIN m
    THEN Ret(Err(VoucherNotFound(ref_id)), m)
    ELSE Ret(Ok, [m EXCEPT ![ref_id].allowed_xlps = Some(xlps)])

SetSignedVoucher(m, ref_id, voucher) ==
    IF ref_id \notin DOMAIN m
    THEN Ret(Err(VoucherNotFound(ref_id)), m)
    ELSE Ret(Ok, [m EXCEPT ![ref_id].signed_voucher = Some(voucher)])

\* the entries in the order `order`, the order the HashMap iterates in
AllVouchers(m, order) == [i \in DOMAIN order |-> m[order[i]]]

\* the first index from i on whose entry is not consumed, 0 if there is none
RECURSIVE FirstUnconsumed(_, _, _)
FirstUnconsumed(m, order, i) ==
    IF i > Len(order) THEN 0
    ELSE IF ~IsSome(m[order[i]].dest_batch_index) THEN i
    ELSE FirstUnconsumed(m, order, i + 1)

UnwrapOr(o, d) == IF IsSome(o) THEN Unwrap(o) ELSE d

\* a validate_all_consumed that looks at the first entry only
ValidateFirstOnly(m, order) ==
    IF Len(order) > 0 /\ ~IsSome(m[order[1]].dest_batch_index)
    THEN Err(VoucherNotConsumed(order[1], UnwrapOr(m[order[1]].voucher.source_chain_id, 0)))
    ELSE Ok

\* `order` is the iteration order of the HashMap, which the code does not fix
ValidateAllConsumed(m, order) ==
    LET i == FirstUnconsumed(m, order, 1) IN
    IF i = 0 THEN Ok
    ELSE Err(VoucherNotConsumed(order[i], UnwrapOr(m[order[i]].voucher.source_chain_id, 0)))

-----------------------------------------------------------------------------
(* Fee numerators *)

\* A fee percentage is an f64.  The model's percentages are the doubles
\* nearest to k/10000 for k in 0..1000, named by k.

\* the k for which the f64 product (k/10000) * 10000.0 is below k, so that
\* the cast `as u64` truncates it to k - 1 (IEEE-754 double arithmetic)
ProductBelow ==
      {3, 6, 12, 24, 29, 48, 58, 93, 96, 113, 116, 163, 169, 186, 192, 209,
      215, 226, 232, 249, 255, 321, 326, 338, 355, 372, 384, 389, 401, 418,
      430, 435, 447, 452, 464, 481, 493, 498, 510, 642, 647, 652, 676, 681,
      705, 710, 715, 739, 744, 768, 773, 778, 797, 802, 807, 831, 836, 841,
      860, 865, 870, 894, 899, 904, 923, 928, 933, 957, 962, 967, 986, 991,
      996}

\* (percent * 10_000.0) as u64
FeePercentToNumerator(k) == IF k \in ProductBelow THEN k - 1 ELSE k

\* FeeConfig::default(): 0.001, 0.05, 0.0001, 0.001
DefaultFeeConfig ==
    [start_fee_percent |-> 10, max_fee_percent |-> 500,
     fee_increase_per_second |-> 1, unspent_voucher_fee_percent |-> 10]

-----------------------------------------------------------------------------
(* CrossChainConfig and NetworkEnvironment *)

EntryPointV7 == 4337
TestPaymaster == 1

ChainInfo(c, url, ep, pm) == [chain_id |-> c, rpc_url |-> url, entry_point |-> ep, paymaster |-> pm]

\* create_test_config: one ChainInfo per chain id, in the order given
TestChainInfo(c) == ChainInfo(c, <<"https://test-rpc", c>>, EntryPointV7, TestPaymaster)

DefaultExpireTimeSeconds == 60
DefaultExecTimeoutSeconds == 30

DefaultMinXlps == 1
DefaultMaxXlps == 5

\* XlpSelectionConfig::default(): the bounds on the number of XLPs
DefaultXlpSelectionConfig == [min_xlps |-> DefaultMinXlps, max_xlps |-> DefaultMaxXlps]

CrossChainConfigNew(chain_infos) ==
    [chain_infos |-> chain_infos,
     expire_time_seconds |-> DefaultExpireTimeSeconds,
     exec_timeout_seconds |-> DefaultExecTimeoutSeconds,
     xlp_selection_config |-> DefaultXlpSelectionConfig,
     fee_config |-> DefaultFeeConfig]

WithExecTimeout(config, seconds) == [config EXCEPT !.exec_timeout_seconds = seconds]

CreateTestConfig(chain_ids) == CrossChainConfigNew([i \in DOMAIN chain_ids |-> TestChainInfo(chain_ids[i])])

\* the first index from i on whose ChainInfo has this chain id, 0 if none
RECURSIVE FindChain(_, _, _)
FindChain(chain_infos, chain_id, i) ==
    IF i > Len(chain_infos) THEN 0
    ELSE IF chain_infos[i].chain_id = chain_id THEN i
    ELSE FindChain(chain_infos, chain_id, i + 1)

\* CrossChainConfig::chain_info: Option<&ChainInfo>
ConfigChainInfo(config, chain_id) ==
    LET i == FindChain(config.chain_infos, chain_id, 1) IN
    IF i = 0 THEN None ELSE Some(config.chain_infos[i])

\* the rpc_urls map after inserting the first n chain infos in order
RECURSIVE RpcUrlsUpTo(_, _)
RpcUrlsUpTo(chain_infos, n) ==
    IF n = 0 THEN [c \in {} |-> None]
    ELSE Insert(RpcUrlsUpTo(chain_infos, n - 1), chain_infos[n].chain_id, chain_infos[n].rpc_url)

NetworkEnvironmentNew(config) ==
    [rpc_urls |-> RpcUrlsUpTo(config.chain_infos, Len(config.chain_infos)), config |-> config]

RpcUrl(env, chain_id) ==
    IF chain_id \in DOMAIN env.rpc_urls THEN OkWith(env.rpc_urls[chain_id])
    ELSE Err(UnsupportedChain(chain_id))

\* an entry point lookup that answers for every chain
EntryPointAnyChain(env, chain_id) == OkWith(EntryPointV7)

EntryPoint(env, chain_id) ==
    LET info == ConfigChainInfo(env.config, chain_id) IN
    IF IsSome(info) THEN OkWith(Unwrap(info).entry_point) ELSE Err(UnsupportedChain(chain_id))

Paymaster(env, chain_id) ==
    LET info == ConfigChainInfo(env.config, chain_id) IN
    IF IsSome(info) THEN OkWith(Unwrap(info).paymaster) ELSE Err(UnsupportedChain(chain_id))

\* the environment of an sdk configured for chains 1 and 10
TestEnv == NetworkEnvironmentNew(CreateTestConfig(<<1, 10>>))

-----------------------------------------------------------------------------
(* Smart accounts *)

MockAddress == 2222

\* MockAccount::with_chains
MockAccountWithChains(chain_ids) == [kind |-> "MockAccount", addresses |-> [c \in chain_ids |-> MockAddress]]
\* MockAccount::new
MockAccountNew == MockAccountWithChains({1, 10, 42161})

AddressOn(acct, chain_id) ==
    IF chain_id \in DOMAIN acct.addresses THEN OkWith(acct.addresses[chain_id])
    ELSE Err(UnsupportedChain(chain_id))

\* Hex::new() is the empty byte string
HexNew == << >>
MockSignature == [i \in 1..65 |-> 171]

\* A Signer is a trait object.  The model's signer returns the same signature
\* for every hash and fails at its fails_at-th call (never when that is 0).
Signer(signature, fails_at) == [signature |-> signature, fails_at |-> fails_at]

\* Signer::sign at the n-th call of one sign_user_ops
SignerSign(signer, n) ==
    IF signer.fails_at = n THEN Err(Generic("signer failed")) ELSE OkWith(signer.signature)

\* BaseMultichainSmartAccount with the given addresses and signer
BaseAccount(addresses, signer) == [kind |-> "BaseAccount", addresses |-> addresses, signer |-> signer]

\* BaseMultichainSmartAccount::sign_user_ops from index i on: the loop signs
\* in place and `?` returns the first error, dropping the list
RECURSIVE BaseSignUserOps(_, _, _)
BaseSignUserOps(signer, user_ops, i) ==
    IF i > Len(user_ops) THEN OkWith(user_ops)
    ELSE LET signature == SignerSign(signer, i) IN
         IF ~signature.ok THEN signature
         ELSE BaseSignUserOps(signer, [user_ops EXCEPT ![i].signature = signature.value], i + 1)

\* MockAccount::sign_user_ops
MockSignUserOps(user_ops) ==
    OkWith([i \in DOMAIN user_ops |-> [user_ops[i] EXCEPT !.signature = MockSignature]])

\* a sign_user_ops that returns the signed operations without the last one
SignUserOpsDropsLast(acct, user_ops) ==
    OkWith([i \in 1..(Len(user_ops) - 1) |-> [user_ops[i] EXCEPT !.signature = MockSignature]])

\* MultiChainSmartAccount is a public trait and use_account takes any
\* Arc<dyn MultiChainSmartAccount>.  ShortAccount is an implementation a
\* caller supplies: it signs as the mock does and returns the list without
\* its last `drops` operations.
ShortAccount(addresses, drops) == [kind |-> "ShortAccount", addresses |-> addresses, drops |-> drops]

ShortSignUserOps(acct, user_ops) ==
    LET n == IF Len(user_ops) > acct.drops THEN Len(user_ops) - acct.drops ELSE 0 IN
    OkWith([i \in 1..n |-> [user_ops[i] EXCEPT !.signature = MockSignature]])

\* MultiChainSmartAccount::sign_user_ops of the account's implementation
SignUserOps(acct, user_ops) ==
    IF acct.kind = "MockAccount" THEN MockSignUserOps(user_ops)
    ELSE IF acct.kind = "BaseAccount" THEN BaseSignUserOps(acct.signer, user_ops, 1)
    ELSE ShortSignUserOps(acct, user_ops)

\* MultiChainSmartAccount::encode_calls: the mock returns 32 zero bytes, the
\* base account's placeholder the empty byte string, whatever the calls
EncodeCalls(acct, chain_id, calls) ==
    IF acct.kind = "MockAccount" THEN OkWith([i \in 1..32 |-> 0]) ELSE OkWith(HexNew)

\* MultichainToken::address_on
TokenAddressOn(token, chain_id) ==
    IF chain_id \in DOMAIN token.deployments THEN Some(token.deployments[chain_id]) ELSE None

-----------------------------------------------------------------------------
(* Actions *)

Call(target, data, value) == [target |-> target, data |-> data, value |-> value]

TransferAction(token, recipient, amount) ==
    [kind |-> "Transfer", token |-> token, recipient |-> recipient, amount |-> amount]
VoucherRequestAction(voucher_request) ==
    [kind |-> "VoucherRequest", voucher_request |-> voucher_request]

\* Action::encode_call for the batch on `chain_id`
EncodeCall(action, chain_id) ==
    IF action.kind = "Transfer"
    THEN LET a == TokenAddressOn(action.token, chain_id) IN
         IF ~IsSome(a) THEN Err(InvalidAddress(chain_id))
         ELSE IF action.amount.kind = "Fixed"
         THEN OkWith(<<Call(Unwrap(a), <<"transfer(address,uint256)", action.recipient, action.amount.value>>, None)>>)
         ELSE Err(Generic("Runtime variables not yet implemented in encode"))
    ELSE OkWith(<< >>)

-----------------------------------------------------------------------------
(* Translation of a voucher (CrossChainBuilder::sdk_to_voucher_request) *)

\* a resolution that ignores min_provider_deposit
AssetAmountIgnoresDeposit(t) ==
    IF t.amount.kind = "Fixed" THEN t.amount.value ELSE 1

\* Amount::Fixed passes through, Amount::Runtime becomes min_provider_deposit or 1
AssetAmount(t) ==
    IF t.amount.kind = "Fixed" THEN t.amount.value ELSE UnwrapOr(t.min_provider_deposit, 1)

Asset(erc20_token, amount) == [erc20_token |-> erc20_token, amount |-> amount]

\* tokens.iter().map(..).collect::<Result<Vec<_>>>() from index i on
RECURSIVE Assets(_, _, _)
Assets(tokens, chain_id, i) ==
    IF i > Len(tokens) THEN OkWith(<< >>)
    ELSE LET a == TokenAddressOn(tokens[i].token, chain_id) IN
         IF ~IsSome(a) THEN Err(InvalidAddress(chain_id))
         ELSE LET rest == Assets(tokens, chain_id, i + 1) IN
              IF rest.ok THEN OkWith(<<Asset(Unwrap(a), AssetAmount(tokens[i]))>> \o rest.value)
              ELSE rest

FeeRule(fee_config) ==
    [start_fee_percent_numerator |-> FeePercentToNumerator(fee_config.start_fee_percent),
     max_fee_percent_numerator |-> FeePercentToNumerator(fee_config.max_fee_percent),
     fee_increase_per_second |-> FeePercentToNumerator(fee_config.fee_increase_per_second),
     unspent_voucher_fee |-> FeePercentToNumerator(fee_config.unspent_voucher_fee_percent)]

\* 0.01 ETH in wei, written in decimal (it exceeds the range of the integers used here)
MaxUserOpCost == "10000000000000000"

\* `m` is the coordinator map, `now` the value of utils::now_seconds()
SdkToVoucherRequest(env, acct, m, sdk_request, now) ==
    IF ~IsSome(acct) THEN Err(AccountNotSet)
    ELSE IF ~IsSome(sdk_request.source_chain_id) THEN Err(Panic("unwrap on None"))
    ELSE
    LET source_chain == Unwrap(sdk_request.source_chain_id)
        dest_chain == sdk_request.destination_chain_id
        source_sender == AddressOn(Unwrap(acct), source_chain)
        dest_account == AddressOn(Unwrap(acct), dest_chain)
        source_paymaster == Paymaster(env, source_chain)
        dest_paymaster == Paymaster(env, dest_chain)
        source_assets == Assets(sdk_request.tokens, source_chain, 1)
        dest_assets == Assets(sdk_request.tokens, dest_chain, 1)
        voucher_info == Get(m, sdk_request.ref_id)
    IN
    IF ~source_sender.ok THEN source_sender
    ELSE IF ~IsSome(sdk_request.target) /\ ~dest_account.ok THEN Err(Panic("unwrap on Err"))
    ELSE IF ~source_paymaster.ok THEN source_paymaster
    ELSE IF ~dest_paymaster.ok THEN dest_paymaster
    ELSE IF ~source_assets.ok THEN source_assets
    ELSE IF ~voucher_info.ok THEN voucher_info
    ELSE IF ~dest_assets.ok THEN dest_assets
    ELSE OkWith(
      [origination |->
         [chain_id |-> source_chain,
          sender |-> source_sender.value,
          paymaster |-> source_paymaster.value,
          assets |-> source_assets.value,
          fee_rule |-> FeeRule(env.config.fee_config),
          sender_nonce |-> 0,
          allowed_xlps |-> UnwrapOr(voucher_info.value.allowed_xlps, << >>)],
       destination |->
         [chain_id |-> dest_chain,
          sender |-> IF IsSome(sdk_request.target) THEN Unwrap(sdk_request.target) ELSE dest_account.value,
          paymaster |-> dest_paymaster.value,
          assets |-> dest_assets.value,
          max_user_op_cost |-> MaxUserOpCost,
          expires_at |-> now + env.config.expire_time_seconds]])

-----------------------------------------------------------------------------
(* CrossChainBuilder and BatchBuilder *)

\* a batch builder that always takes index 0
BatchBuilderNewIndexZero(chain_id, batch_index) ==
    [chain_id |-> chain_id, batch_index |-> 0, actions |-> << >>,
     input_vouchers |-> << >>, output_vouchers |-> << >>]

BatchBuilderNew(chain_id, batch_index) ==
    [chain_id |-> chain_id, batch_index |-> batch_index, actions |-> << >>,
     input_vouchers |-> << >>, output_vouchers |-> << >>]

\* an add_voucher_request that keeps the source chain the caller supplied
BatchAddVoucherRequestKeepsSource(b, request) ==
    [b EXCEPT !.output_vouchers = Append(@, request)]

\* BatchBuilder::add_voucher_request
BatchAddVoucherRequest(b, request) ==
    LET req == [request EXCEPT !.source_chain_id = Some(b.chain_id)]
    IN [b EXCEPT !.output_vouchers = Append(@, req)]

\* a use_voucher that marks the voucher consumed and leaves the input
\* vouchers of the batch as they were
BatchUseVoucherForgetsInput(b, m, ref_id) ==
    LET r == MarkConsumed(m, ref_id, b.batch_index) IN
    [result |-> r.result, vouchers |-> r.vouchers, batch |-> b]

\* BatchBuilder::use_voucher on batch b with the parent's coordinator m: the
\* Result, the coordinator and the batch it leaves
BatchUseVoucher(b, m, ref_id) ==
    LET r == MarkConsumed(m, ref_id, b.batch_index)
        g == Get(r.vouchers, ref_id)
    IN
    IF ~r.result.ok THEN [result |-> r.result, vouchers |-> r.vouchers, batch |-> b]
    ELSE IF ~g.ok THEN [result |-> g, vouchers |-> r.vouchers, batch |-> b]
    ELSE [result |-> Ok, vouchers |-> r.vouchers,
          batch |-> [b EXCEPT !.input_vouchers = Append(@, g.value.voucher)]]

\* placeholder in the code: the list is always empty
GetAllowedXlps(voucher) == OkWith(<< >>)

\* collect_xlps_per_voucher from position i of the iteration order on
RECURSIVE CollectXlpsPerVoucher(_, _, _)
CollectXlpsPerVoucher(m, order, i) ==
    IF i > Len(order) THEN Ret(Ok, m)
    ELSE LET xlps == GetAllowedXlps(m[order[i]].voucher) IN
         IF ~xlps.ok THEN Ret(xlps, m)
         ELSE LET r == SetAllowedXlps(m, order[i], xlps.value) IN
              IF ~r.result.ok THEN r
              ELSE CollectXlpsPerVoucher(r.vouchers, order, i + 1)

\* build_vouchers from position i of the iteration order on
RECURSIVE BuildVouchers(_, _, _, _, _, _)
BuildVouchers(env, acct, m, order, i, now) ==
    IF i > Len(order) THEN Ret(Ok, m)
    ELSE LET t == SdkToVoucherRequest(env, acct, m, m[order[i]].voucher, now) IN
         IF ~t.ok THEN Ret(t, m)
         ELSE LET r == SetVoucherRequest(m, order[i], t.value) IN
              IF ~r.result.ok THEN r
              ELSE BuildVouchers(env, acct, r.vouchers, order, i + 1, now)

\* the calls of the actions from index i on, in order
RECURSIVE EncodeActions(_, _, _)
EncodeActions(actions, chain_id, i) ==
    IF i > Len(actions) THEN OkWith(<< >>)
    ELSE LET c == EncodeCall(actions[i], chain_id) IN
         IF ~c.ok THEN c
         ELSE LET rest == EncodeActions(actions, chain_id, i + 1) IN
              IF rest.ok THEN OkWith(c.value \o rest.value) ELSE rest

CallGasLimit == 3000000
VerificationGasLimit == 500000
PreVerificationGas == 100000
OneGwei == 1000000000

\* BatchBuilder::create_user_op
CreateUserOp(env, batch) ==
    LET calls == EncodeActions(batch.actions, batch.chain_id, 1)
        entry_point == EntryPoint(env, batch.chain_id)
    IN
    IF ~calls.ok THEN calls
    ELSE IF ~entry_point.ok THEN entry_point
    ELSE OkWith(
      [sender |-> 0, nonce |-> 0, factory |-> None, factory_data |-> None,
       call_data |-> HexNew,
       call_gas_limit |-> CallGasLimit,
       verification_gas_limit |-> VerificationGasLimit,
       pre_verification_gas |-> PreVerificationGas,
       max_fee_per_gas |-> OneGwei,
       max_priority_fee_per_gas |-> OneGwei,
       paymaster |-> None, paymaster_data |-> None,
       signature |-> HexNew,
       chain_id |-> Some(batch.chain_id),
       entry_point_address |-> Some(entry_point.value)])

\* compute_user_op_hash: the hash of 32 zero bytes, whatever the operation
ComputeUserOpHash(user_op) == OkWith("keccak256(0x00*32)")

\* BatchBuilder::build_single_chain_batch
BuildSingleChainBatch(env, batch) ==
    LET user_op == CreateUserOp(env, batch) IN
    IF ~user_op.ok THEN user_op
    ELSE OkWith(
      [user_op |-> user_op.value,
       user_op_hash |-> ComputeUserOpHash(user_op.value).value,
       chain_id |-> batch.chain_id,
       input_voucher_requests |-> batch.input_vouchers,
       out_voucher_requests |-> batch.output_vouchers])

\* the loop over self.batches from index i on
RECURSIVE BuildEachBatch(_, _, _)
BuildEachBatch(env, bs, i) ==
    IF i > Len(bs) THEN OkWith(<< >>)
    ELSE LET b == BuildSingleChainBatch(env, bs[i]) IN
         IF ~b.ok THEN b
         ELSE LET rest == BuildEachBatch(env, bs, i + 1) IN
              IF rest.ok THEN OkWith(<<b.value>> \o rest.value) ELSE rest

AssertNotBuilt(built) == IF built THEN Err(BuilderAlreadyBuilt) ELSE Ok

\* a build that skips validate_all_consumed
BuildWithoutValidation(env, acct, built, m, bs, order, now) ==
    LET nb == AssertNotBuilt(built)
        x == CollectXlpsPerVoucher(m, order, 1)
        v == BuildVouchers(env, acct, x.vouchers, order, 1, now)
        b == BuildEachBatch(env, bs, 1)
    IN
    IF ~nb.ok THEN Ret(nb, m)
    ELSE IF ~x.result.ok THEN x
    ELSE IF ~v.result.ok THEN v
    ELSE Ret(b, v.vouchers)

\* a build that validates consumption before it translates the vouchers
BuildValidatesFirst(env, acct, built, m, bs, order, now) ==
    LET nb == AssertNotBuilt(built)
        x == CollectXlpsPerVoucher(m, order, 1)
        c == ValidateAllConsumed(x.vouchers, order)
        v == BuildVouchers(env, acct, x.vouchers, order, 1, now)
        b == BuildEachBatch(env, bs, 1)
    IN
    IF ~nb.ok THEN Ret(nb, m)
    ELSE IF ~x.result.ok THEN x
    ELSE IF ~c.ok THEN Ret(c, x.vouchers)
    ELSE IF ~v.result.ok THEN v
    ELSE Ret(b, v.vouchers)

\* CrossChainBuilder::build_single_chain_batches: the returned Result and the
\* coordinator map it leaves; `order` is the iteration order of the HashMap
BuildSingleChainBatches(env, acct, built, m, bs, order, now) ==
    LET nb == AssertNotBuilt(built)
        x == CollectXlpsPerVoucher(m, order, 1)
        v == BuildVouchers(env, acct, x.vouchers, order, 1, now)
        c == ValidateAllConsumed(v.vouchers, order)
        b == BuildEachBatch(env, bs, 1)
    IN
    IF ~nb.ok THEN Ret(nb, m)
    ELSE IF ~x.result.ok THEN x
    ELSE IF ~v.result.ok THEN v
    ELSE IF ~c.ok THEN Ret(c, v.vouchers)
    ELSE Ret(b, v.vouchers)

\* the register loop of end_batch from index i on; stops at the first Err
RECURSIVE RegisterOutputs(_, _, _, _)
RegisterOutputs(m, outs, batch_index, i) ==
    IF i > Len(outs) THEN Ret(Ok, m)
    ELSE LET r == Register(m, outs[i], batch_index) IN
         IF ~r.result.ok THEN r
         ELSE RegisterOutputs(r.vouchers, outs, batch_index, i + 1)

\* CrossChainExecutor::new
CrossChainExecutorNew(env, signed_batches) ==
    [network_env |-> env, batches |-> signed_batches,
     timeout_seconds |-> env.config.exec_timeout_seconds]

-----------------------------------------------------------------------------
(* The bare coordinator, driven through its public methods *)

\* the vouchers a caller of the bare coordinator registers
RawVouchers ==
    { SdkVoucherRequest(r, s, 10, <<TokenAmount(USDC, Fixed(100), None)>>, None) :
        r \in RefIds, s \in {None, Some(1)} }

\* the executor variables while no executor exists
NoExecutor ==
    /\ exec = None
    /\ exec_pc = "none"
    /\ batch_statuses = << >>
    /\ cur_idx = 0
    /\ callbacks = << >>
    /\ elapsed = 0
    /\ ticks = 0
    /\ runs = 0
    /\ reverting = {}

\* the builder variables while no builder exists
NoBuilder ==
    /\ network_env = TestEnv
    /\ account = None
    /\ batches = << >>
    /\ cur = None
    /\ is_built = FALSE

InitCoord ==
    /\ vouchers = EmptyCoordinator
    /\ phase = "Coordinator"
    /\ NoBuilder
    /\ NoExecutor
    /\ last = [op |-> "new"]

CoordRegister(voucher, source_batch_index) ==
    LET r == Register(vouchers, voucher, source_batch_index) IN
    /\ phase = "Coordinator"
    /\ vouchers' = r.vouchers
    /\ last' = [op |-> "register", voucher |-> voucher, index |-> source_batch_index, result |-> r.result]
    /\ UNCHANGED <<builderVars, execVars>>

CoordMarkConsumed(ref_id, dest_batch_index) ==
    LET r == MarkConsumed(vouchers, ref_id, dest_batch_index) IN
    /\ phase = "Coordinator"
    /\ vouchers' = r.vouchers
    /\ last' = [op |-> "mark_consumed", ref_id |-> ref_id, index |-> dest_batch_index, result |-> r.result]
    /\ UNCHANGED <<builderVars, execVars>>

CoordGet(ref_id) ==
    /\ phase = "Coordinator"
    /\ last' = [op |-> "get", ref_id |-> ref_id, result |-> Get(vouchers, ref_id)]
    /\ UNCHANGED <<coordVars, builderVars, execVars>>

CoordValidateAllConsumed(order) ==
    /\ phase = "Coordinator"
    /\ last' = [op |-> "validate_all_consumed", order |-> order, result |-> ValidateAllConsumed(vouchers, order)]
    /\ UNCHANGED <<coordVars, builderVars, execVars>>

NextCoord ==
    \/ \E v \in RawVouchers, s \in 0..MaxIndex : CoordRegister(v, s)
    \/ \E r \in RefIds, d \in 0..MaxIndex : CoordMarkConsumed(r, d)
    \/ \E r \in RefIds : CoordGet(r)
    \/ \E o \in Orders(DOMAIN vouchers) : CoordValidateAllConsumed(o)

SpecCoord == InitCoord /\ [][NextCoord]_vars

-----------------------------------------------------------------------------
(* The setters of the bare coordinator *)

\* Voucher: a voucher request signed by an XLP
Voucher(request, signature) == [request |-> request, signature |-> signature]

\* the vouchers a caller of the setters registers
SetterVouchers == { v \in RawVouchers : v.source_chain_id = Some(1) }

\* the translations of a voucher from chain 1 to chain 10 at two clock readings
SampleVoucherRequests ==
    LET v == SdkVoucherRequest("v1", Some(1), 10, <<TokenAmount(USDC, Fixed(100), None)>>, None)
        m == Register(EmptyCoordinator, v, 0).vouchers
    IN { SdkToVoucherRequest(TestEnv, Some(MockAccountNew), m, v, now).value :
           now \in {1700000000, 1700000060} }

\* the XLP lists a caller passes to set_allowed_xlps
SampleXlps == { << >>, <<1, 2>> }

\* the signed vouchers a caller passes to set_signed_voucher
SampleSignedVouchers ==
    { Voucher(vr, MockSignature) : vr \in SampleVoucherRequests }

CoordSetVoucherRequest(ref_id, voucher_request) ==
    LET r == SetVoucherRequest(vouchers, ref_id, voucher_request) IN
    /\ phase = "Coordinator"
    /\ vouchers' = r.vouchers
    /\ last' = [op |-> "set_voucher_request", ref_id |-> ref_id, value |-> voucher_request, result |-> r.result]
    /\ UNCHANGED <<builderVars, execVars>>

CoordSetAllowedXlps(ref_id, xlps) ==
    LET r == SetAllowedXlps(vouchers, ref_id, xlps) IN
    /\ phase = "Coordinator"
    /\ vouchers' = r.vouchers
    /\ last' = [op |-> "set_allowed_xlps", ref_id |-> ref_id, value |-> xlps, result |-> r.result]
    /\ UNCHANGED <<builderVars, execVars>>

CoordSetSignedVoucher(ref_id, voucher) ==
    LET r == SetSignedVoucher(vouchers, ref_id, voucher) IN
    /\ phase = "Coordinator"
    /\ vouchers' = r.vouchers
    /\ last' = [op |-> "set_signed_voucher", ref_id |-> ref_id, value |-> voucher, result |-> r.result]
    /\ UNCHANGED <<builderVars, execVars>>

NextCoordSetters ==
    \/ \E v \in SetterVouchers : CoordRegister(v, 0)
    \/ \E r \in RefIds, q \in SampleVoucherRequests : CoordSetVoucherRequest(r, q)
    \/ \E r \in RefIds, x \in SampleXlps : CoordSetAllowedXlps(r, x)
    \/ \E r \in RefIds, v \in SampleSignedVouchers : CoordSetSignedVoucher(r, v)

SpecCoordSetters == InitCoord /\ [][NextCoordSetters]_vars

-----------------------------------------------------------------------------
(* The builder, driven through its public methods.                          *)
(* The builder methods take `self` by value: a call that returns Err or     *)
(* panics drops the builder.  The variables then keep the values the call   *)
(* left behind, and phase ("Dropped", "Panicked") disables every method.    *)

\* the accounts a caller binds
AccountChoices == {MockAccountNew, MockAccountWithChains({1})}

\* the voucher requests a caller passes to add_voucher_request
VoucherInputs ==
    { SdkVoucherRequest(r, None, 10, <<TokenAmount(USDC, Fixed(100), None)>>, None) : r \in RefIds }
    \cup
    { SdkVoucherRequest("v1", Some(42161), 1, <<TokenAmount(LOCAL10, Runtime("amt"), Some(5))>>, Some(3333)) }

\* the actions a caller passes to add_action
ActionInputs ==
    { TransferAction(LOCAL1, 3333, Fixed(50)),
      VoucherRequestAction(SdkVoucherRequest("v2", None, 10, <<TokenAmount(USDC, Fixed(100), None)>>, None)) }

\* the values utils::now_seconds() returns during a build
ClockReadings == {1700000000}

\* the elements of field f of the ended batches and of the open batch
RECURSIVE AddedIn(_, _, _)
AddedIn(bs, f, i) ==
    IF i > Len(bs) THEN {} ELSE { bs[i][f][k] : k \in DOMAIN bs[i][f] } \cup AddedIn(bs, f, i + 1)

Added(f) == AddedIn(batches, f, 1) \cup AddedIn(cur, f, 1)

\* A caller passes each element of ActionInputs and of VoucherInputs to one
\* builder at most once, which bounds the lists of a builder.
FreshAction(action) == action \notin Added("actions")
FreshRequest(request) ==
    \A o \in Added("output_vouchers") : [o EXCEPT !.source_chain_id = request.source_chain_id] /= request

Init ==
    /\ vouchers = EmptyCoordinator
    /\ phase = "Building"
    /\ network_env = TestEnv
    /\ account = None
    /\ batches = << >>
    /\ cur = None
    /\ is_built = FALSE
    /\ NoExecutor
    /\ last = [op |-> "new"]

UseAccount(acct) ==
    /\ phase = "Building"
    /\ IF IsSome(account)
       THEN /\ phase' = "Dropped"
            /\ account' = account
            /\ last' = [op |-> "use_account", result |-> Err(AccountAlreadySet)]
       ELSE /\ phase' = "ReadyToBuild"
            /\ account' = Some(acct)
            /\ last' = [op |-> "use_account", result |-> Ok]
    /\ UNCHANGED <<vouchers, network_env, batches, cur, is_built, execVars>>

StartBatch(chain_id) ==
    /\ phase = "ReadyToBuild"
    /\ Len(batches) < MaxBatches
    /\ phase' = "Batch"
    /\ cur' = Some(BatchBuilderNew(chain_id, Len(batches)))
    /\ last' = [op |-> "start_batch", chain_id |-> chain_id, result |-> Ok]
    /\ UNCHANGED <<vouchers, network_env, account, batches, is_built, execVars>>

AddAction(action) ==
    /\ phase = "Batch"
    /\ FreshAction(action)
    /\ cur' = Some([Unwrap(cur) EXCEPT !.actions = Append(@, action)])
    /\ last' = [op |-> "add_action", result |-> Ok]
    /\ UNCHANGED <<vouchers, phase, network_env, account, batches, is_built, execVars>>

AddVoucherRequest(request) ==
    /\ phase = "Batch"
    /\ FreshRequest(request)
    /\ cur' = Some(BatchAddVoucherRequest(Unwrap(cur), request))
    /\ last' = [op |-> "add_voucher_request", request |-> request, result |-> Ok]
    /\ UNCHANGED <<vouchers, phase, network_env, account, batches, is_built, execVars>>

UseVoucher(ref_id) ==
    /\ phase = "Batch"
    /\ LET u == BatchUseVoucher(Unwrap(cur), vouchers, ref_id)
       IN /\ vouchers' = u.vouchers
          /\ phase' = IF u.result.ok THEN phase ELSE "Dropped"
          /\ cur' = Some(u.batch)
          /\ last' = [op |-> "use_voucher", ref_id |-> ref_id, result |-> u.result]
    /\ UNCHANGED <<network_env, account, batches, is_built, execVars>>

EndBatch ==
    /\ phase = "Batch"
    /\ LET b == Unwrap(cur)
           r == RegisterOutputs(vouchers, b.output_vouchers, b.batch_index, 1)
       IN /\ vouchers' = r.vouchers
          /\ IF ~r.result.ok
             THEN \* .expect("Failed to register voucher")
                  /\ phase' = "Panicked"
                  /\ cur' = cur
                  /\ batches' = batches
                  /\ last' = [op |-> "end_batch",
                              result |-> Err(Panic(<<"Failed to register voucher", r.result.err>>))]
             ELSE /\ phase' = "ReadyToBuild"
                  /\ cur' = None
                  /\ batches' = Append(batches, b)
                  /\ last' = [op |-> "end_batch", result |-> Ok]
    /\ UNCHANGED <<network_env, account, is_built, execVars>>

\* pub async fn build_single_chain_batches(&mut self): the builder stays with
\* the caller whatever the result, unless the call panics
BuildSingleChainBatchesCall(order, now) ==
    /\ phase = "ReadyToBuild"
    /\ \E r \in {BuildSingleChainBatches(network_env, account, is_built, vouchers, batches, order, now)} :
       /\ vouchers' = r.vouchers
       /\ phase' = IF IsErr(r.result, "Panic") THEN "Panicked" ELSE phase
       /\ last' = [op |-> "build_single_chain_batches", order |-> order, result |-> r.result]
    /\ UNCHANGED <<network_env, account, batches, cur, is_built, execVars>>

Min(a, b) == IF a < b THEN a ELSE b

\* a build_and_sign that hands the unsigned batches to the executor
ZipKeepsUnsigned(bs, signed_user_ops) == bs

\* batches.into_iter().zip(signed_user_ops).map(..).collect()
ZipSigned(bs, signed_user_ops) ==
    [i \in 1..Min(Len(bs), Len(signed_user_ops)) |-> [bs[i] EXCEPT !.user_op = signed_user_ops[i]]]

\* pub async fn build_and_sign(mut self): consumes the builder
BuildAndSign(order, now) ==
    /\ phase = "ReadyToBuild"
    /\ \E r \in {BuildSingleChainBatches(network_env, account, is_built, vouchers, batches, order, now)} :
          /\ vouchers' = r.vouchers
          /\ IF ~r.result.ok
             THEN /\ phase' = IF IsErr(r.result, "Panic") THEN "Panicked" ELSE "Dropped"
                  /\ last' = [op |-> "build_and_sign", order |-> order, result |-> r.result]
                  /\ UNCHANGED <<is_built, execVars>>
             ELSE IF ~IsSome(account)
             THEN /\ phase' = "Dropped"
                  /\ last' = [op |-> "build_and_sign", order |-> order, result |-> Err(AccountNotSet)]
                  /\ UNCHANGED <<is_built, execVars>>
             ELSE \E signed \in {SignUserOps(Unwrap(account),
                                    [i \in DOMAIN r.result.value |-> r.result.value[i].user_op])} :
                  IF ~signed.ok
                  THEN /\ phase' = "Dropped"
                       /\ last' = [op |-> "build_and_sign", order |-> order, result |-> signed]
                       /\ UNCHANGED <<is_built, execVars>>
                  ELSE /\ phase' = "Signed"
                       /\ is_built' = TRUE
                       /\ exec' = Some(CrossChainExecutorNew(network_env, ZipSigned(r.result.value, signed.value)))
                       /\ exec_pc' = "idle"
                       /\ last' = [op |-> "build_and_sign", order |-> order, result |-> Ok]
                       /\ UNCHANGED <<batch_statuses, cur_idx, callbacks, elapsed, ticks, runs, reverting>>
    /\ UNCHANGED <<network_env, account, batches, cur>>

Next ==
    \/ \E a \in AccountChoices : UseAccount(a)
    \/ \E c \in ChainIds : StartBatch(c)
    \/ \E a \in ActionInputs : AddAction(a)
    \/ \E v \in VoucherInputs : AddVoucherRequest(v)
    \/ \E r \in RefIds : UseVoucher(r)
    \/ EndBatch
    \/ \E o \in Orders(DOMAIN vouchers), now \in ClockReadings : BuildSingleChainBatchesCall(o, now)
    \/ \E o \in Orders(DOMAIN vouchers), now \in ClockReadings : BuildAndSign(o, now)

Spec == Init /\ [][Next]_vars

\* The builder driven with an account a caller implements: the mock, or an
\* account whose sign_user_ops returns one operation fewer than it is given.
CallerAccounts == {MockAccountNew, ShortAccount(MockAccountNew.addresses, 1)}

NextCaller ==
    \/ \E a \in CallerAccounts : UseAccount(a)
    \/ \E c \in ChainIds : StartBatch(c)
    \/ \E a \in ActionInputs : AddAction(a)
    \/ \E v \in VoucherInputs : AddVoucherRequest(v)
    \/ \E r \in RefIds : UseVoucher(r)
    \/ EndBatch
    \/ \E o \in Orders(DOMAIN vouchers), now \in ClockReadings : BuildAndSign(o, now)

SpecCaller == Init /\ [][NextCaller]_vars

-----------------------------------------------------------------------------
(* sdk_to_voucher_request applied to one registered voucher.  The method is *)
(* private: build_vouchers calls it on the entries of the coordinator, after *)
(* collect_xlps_per_voucher, and end_batch has registered every entry with  *)
(* the chain of its batch as source chain.                                  *)

\* the sequences over S of length at most n
RECURSIVE SeqsUpTo(_, _)
SeqsUpTo(S, n) ==
    IF n = 0 THEN { << >> }
    ELSE LET shorter == SeqsUpTo(S, n - 1) IN
         shorter \cup { Append(q, x) : q \in { t \in shorter : Len(t) = n - 1 }, x \in S }

\* the longest token list of a translated voucher
MaxTokens == 2

\* create_test_token("DAI", vec![10, 1])
DAI == [name |-> "DAI", deployments |-> [c \in {1, 10} |-> IF c = 10 THEN 1 ELSE 2]]

\* the token amounts of the translated vouchers
TokenAmounts ==
    { TokenAmount(t, a, d) : t \in {USDC, DAI, LOCAL1}, a \in {Fixed(100), Runtime("amt")}, d \in {None, Some(5)} }

\* the vouchers translated: every source and destination chain, with and
\* without a target
TranslatedRequests ==
    { SdkVoucherRequest("v1", Some(s), d, ts, t) :
        s \in ChainIds, d \in ChainIds, ts \in SeqsUpTo(TokenAmounts, MaxTokens), t \in {None, Some(3333)} }

\* the accounts of the builder: on every chain, and on chains 1 and 10 only
TranslatingAccounts == {MockAccountNew, MockAccountWithChains({1, 10})}

InitTranslate ==
    /\ phase = "Translating"
    /\ network_env = TestEnv
    /\ account \in { Some(a) : a \in TranslatingAccounts }
    /\ batches = << >>
    /\ cur = None
    /\ is_built = FALSE
    /\ NoExecutor
    /\ \E v \in TranslatedRequests :
          /\ vouchers = CollectXlpsPerVoucher(Register(EmptyCoordinator, v, 0).vouchers, <<v.ref_id>>, 1).vouchers
          /\ last = [op |-> "input", request |-> v]

TranslateCall(now) ==
    /\ phase = "Translating"
    /\ last.op = "input"
    /\ last' = [op |-> "sdk_to_voucher_request", request |-> last.request,
                result |-> SdkToVoucherRequest(network_env, account, vouchers, last.request, now)]
    /\ UNCHANGED <<vouchers, phase, network_env, account, batches, cur, is_built, execVars>>

NextTranslate == \E now \in ClockReadings : TranslateCall(now)

SpecTranslate == InitTranslate /\ [][NextTranslate]_vars

-----------------------------------------------------------------------------
(* Runtime variable names.  A name is a String, here the sequence of its     *)
(* characters; String::len() is its length in UTF-8 bytes.                   *)

\* the longest name tried, in characters
MaxNameChars == 9

\* the characters of the names: one of one byte and one of two bytes
NameChars == {"a", "U+00E9"}

\* the UTF-8 length of a character
Utf8Len(ch) == IF ch = "a" THEN 1 ELSE 2

\* String::len()
RECURSIVE StringLen(_)
StringLen(name) ==
    IF name = << >> THEN 0 ELSE Utf8Len(Head(name)) + StringLen(Tail(name))

\* a RuntimeVar::new that rejects a name of 8 bytes
RuntimeVarNewExclusive(name) ==
    IF StringLen(name) >= 8 THEN Err(InvalidVariableName(name)) ELSE OkWith([name |-> name])

\* RuntimeVar::new
RuntimeVarNew(name) ==
    IF StringLen(name) > 8 THEN Err(InvalidVariableName(name)) ELSE OkWith([name |-> name])

\* SetVarAction::new
SetVarActionNew(var_name, call) ==
    IF StringLen(var_name) > 8 THEN Err(InvalidVariableName(var_name))
    ELSE OkWith([kind |-> "SetVar", var_name |-> var_name, call |-> call])

\* the FunctionCall passed to SetVarAction::new
SampleFunctionCall == [target |-> 1, abi |-> "ERC20", function_name |-> "balanceOf", args |-> <<2222>>, value |-> None]

InitVar ==
    /\ vouchers = EmptyCoordinator
    /\ phase = "Variables"
    /\ NoBuilder
    /\ NoExecutor
    /\ last \in { [op |-> "input", name |-> n] : n \in SeqsUpTo(NameChars, MaxNameChars) }

RuntimeVarNewCall ==
    /\ phase = "Variables"
    /\ last.op = "input"
    /\ last' = [op |-> "RuntimeVar::new", name |-> last.name, result |-> RuntimeVarNew(last.name)]
    /\ UNCHANGED <<coordVars, builderVars, execVars>>

SetVarActionNewCall ==
    /\ phase = "Variables"
    /\ last.op = "input"
    /\ last' = [op |-> "SetVarAction::new", name |-> last.name,
                result |-> SetVarActionNew(last.name, SampleFunctionCall)]
    /\ UNCHANGED <<coordVars, builderVars, execVars>>

NextVar ==
    \/ RuntimeVarNewCall
    \/ SetVarActionNewCall

SpecVar == InitVar /\ [][NextVar]_vars

-----------------------------------------------------------------------------
(* fee_percent_to_numerator applied to a fee percentage, and the fee rule of *)
(* a configuration whose four percentages are that percentage               *)

\* the largest percentage tried, in steps of 0.0001
MaxFeeStep == 1000

InitFee ==
    /\ vouchers = EmptyCoordinator
    /\ phase = "Fees"
    /\ NoBuilder
    /\ NoExecutor
    /\ last \in { [op |-> "input", percent |-> k] : k \in 0..MaxFeeStep }

FeePercentToNumeratorCall ==
    /\ phase = "Fees"
    /\ last.op = "input"
    /\ last' = [op |-> "fee_percent_to_numerator", percent |-> last.percent,
                result |-> FeePercentToNumerator(last.percent)]
    /\ UNCHANGED <<coordVars, builderVars, execVars>>

FeeRuleCall ==
    /\ phase = "Fees"
    /\ last.op = "input"
    /\ last' = [op |-> "fee_rule", percent |-> last.percent,
                result |-> FeeRule([start_fee_percent |-> last.percent,
                                    max_fee_percent |-> last.percent,
                                    fee_increase_per_second |-> last.percent,
                                    unspent_voucher_fee_percent |-> last.percent])]
    /\ UNCHANGED <<coordVars, builderVars, execVars>>

NextFee ==
    \/ FeePercentToNumeratorCall
    \/ FeeRuleCall

SpecFee == InitFee /\ [][NextFee]_vars

-----------------------------------------------------------------------------
(* sign_user_ops applied to a list of user operations *)

\* the longest list of user operations signed
MaxOps == 2

\* the signature the signer of a base account returns
SignerSignature == [i \in 1..65 |-> 27]

\* the accounts that sign: the mock, and base accounts whose signer fails at
\* no call or at call 1..MaxOps
SigningAccounts ==
    {MockAccountNew} \cup
    { BaseAccount(MockAccountNew.addresses, Signer(SignerSignature, n)) : n \in 0..MaxOps }

\* the user operations create_user_op builds for chains 1 and 10, unsigned or
\* carrying an earlier signature
SampleUserOps ==
    { [CreateUserOp(TestEnv, BatchBuilderNew(c, 0)).value EXCEPT !.signature = g] :
        c \in {1, 10}, g \in {HexNew, MockSignature} }

InitSign ==
    /\ vouchers = EmptyCoordinator
    /\ phase = "Signing"
    /\ network_env = TestEnv
    /\ account \in { Some(a) : a \in SigningAccounts }
    /\ batches = << >>
    /\ cur = None
    /\ is_built = FALSE
    /\ NoExecutor
    /\ last \in { [op |-> "input", user_ops |-> q] : q \in SeqsUpTo(SampleUserOps, MaxOps) }

SignCall ==
    /\ phase = "Signing"
    /\ last.op = "input"
    /\ last' = [op |-> "sign_user_ops", user_ops |-> last.user_ops,
                result |-> SignUserOps(Unwrap(account), last.user_ops)]
    /\ UNCHANGED <<vouchers, phase, network_env, account, batches, cur, is_built, execVars>>

NextSign == SignCall

SpecSign == InitSign /\ [][NextSign]_vars

-----------------------------------------------------------------------------
(* CrossChainExecutor::execute, one action per step of its code *)

\* the BatchStatusInfo execute creates for the batch at 0-based position index
BatchStatusInfo(index, batch) ==
    [index |-> index, batch |-> batch, status |-> "Pending",
     vouchers |-> [r \in {} |-> None],
     request_ids |-> None, tx_hash |-> None, revert_reason |-> None]

\* a signature check that looks at the first batch only
AllSignedFirstOnly(bs) == bs = << >> \/ bs[1].user_op.signature /= HexNew

AllSigned(bs) == \A i \in DOMAIN bs : bs[i].user_op.signature /= HexNew

AllDoneOrFailed(statuses) ==
    \A i \in DOMAIN statuses : statuses[i].status = "Done" \/ statuses[i].status = "Failed"

\* the loop body is empty and the function returns Ok(false)
IsWaitingForVouchers(batch_info) == FALSE

\* the position (1-based) of the first batch from i on that is ready, 0 if none
RECURSIVE FindReadyBatch(_, _)
FindReadyBatch(statuses, i) ==
    IF i > Len(statuses) THEN 0
    ELSE IF statuses[i].status /= "Pending" THEN FindReadyBatch(statuses, i + 1)
    ELSE IF IsWaitingForVouchers(statuses[i]) THEN FindReadyBatch(statuses, i + 1)
    ELSE i

ExecCallbackData(info, callback_type, tx_hash) ==
    [index |-> info.index,
     callback_type |-> callback_type,
     user_op_hash |-> info.batch.user_op_hash,
     tx_hash |-> tx_hash,
     request_ids |-> None,
     revert_reason |-> None,
     input_voucher_requests |-> info.batch.input_voucher_requests,
     out_voucher_requests |-> info.batch.out_voucher_requests]

\* a timeout check that also fires when the elapsed time equals the timeout
TimedOutInclusive(elapsed_secs, timeout_seconds) == elapsed_secs >= timeout_seconds

\* start_time.elapsed().as_secs() > self.timeout_seconds
TimedOut(elapsed_secs, timeout_seconds) == elapsed_secs > timeout_seconds

\* execute(&self, callback) up to the start of the loop
ExecuteStart ==
    /\ exec_pc \in {"idle", "returned"}
    /\ runs < MaxRuns
    /\ runs' = runs + 1
    /\ LET e == Unwrap(exec) IN
       IF ~AllSigned(e.batches)
       THEN /\ exec_pc' = "returned"
            /\ last' = [op |-> "execute", result |-> Err(UserOpNotSigned)]
            /\ UNCHANGED <<batch_statuses, elapsed, ticks>>
       ELSE /\ exec_pc' = "loop"
            /\ batch_statuses' = [i \in DOMAIN e.batches |-> BatchStatusInfo(i - 1, e.batches[i])]
            /\ elapsed' = 0
            /\ ticks' = 0
            /\ last' = [op |-> "execute", result |-> [returned |-> FALSE]]
    /\ callbacks' = << >>
    /\ UNCHANGED <<coordVars, builderVars, exec, cur_idx, reverting>>

\* one iteration of the loop up to the call of execute_single_batch or the sleep
Tick ==
    /\ exec_pc = "loop"
    /\ LET e == Unwrap(exec)
           ready == FindReadyBatch(batch_statuses, 1)
       IN
       IF TimedOut(elapsed, e.timeout_seconds)
       THEN /\ exec_pc' = "returned"
            /\ last' = [op |-> "execute", result |-> Err(ExecutionTimeout(e.timeout_seconds))]
            /\ UNCHANGED <<cur_idx, ticks>>
       ELSE IF AllDoneOrFailed(batch_statuses)
       THEN /\ exec_pc' = "returned"
            /\ last' = [op |-> "execute", result |-> Ok]
            /\ UNCHANGED <<cur_idx, ticks>>
       ELSE IF ready /= 0
       THEN /\ ticks < MaxTicks
            /\ ticks' = ticks + 1
            /\ exec_pc' = "execute_single_batch"
            /\ cur_idx' = batch_statuses[ready].index
            /\ UNCHANGED last
       ELSE \* sleep(100 ms), then the next iteration
            /\ exec_pc' = "loop"
            /\ UNCHANGED <<cur_idx, ticks, last>>
    /\ UNCHANGED <<coordVars, builderVars, exec, batch_statuses, callbacks, elapsed, runs, reverting>>

\* execute_single_batch: the Executing callback
CallbackExecuting ==
    /\ exec_pc = "execute_single_batch"
    /\ callbacks' = Append(callbacks, ExecCallbackData(batch_statuses[cur_idx + 1], "Executing", None))
    /\ exec_pc' = "submitted"
    /\ UNCHANGED <<coordVars, builderVars, last, exec, batch_statuses, cur_idx, elapsed, ticks, runs, reverting>>

\* execute_single_batch: the Done callback and the return to the loop; the
\* BatchStatusInfo is borrowed immutably and its status is not written
CallbackDone ==
    /\ exec_pc = "submitted"
    /\ callbacks' = Append(callbacks, ExecCallbackData(batch_statuses[cur_idx + 1], "Done", Some(HexNew)))
    /\ exec_pc' = "loop"
    /\ UNCHANGED <<coordVars, builderVars, last, exec, batch_statuses, cur_idx, elapsed, ticks, runs, reverting>>

\* a second of wall-clock time passes while execute runs; the clock is
\* followed up to the first value that exceeds the timeout
ClockAdvance ==
    /\ exec_pc \in {"loop", "execute_single_batch", "submitted"}
    /\ elapsed <= Unwrap(exec).timeout_seconds
    /\ elapsed' = elapsed + 1
    /\ UNCHANGED <<coordVars, builderVars, last, exec, exec_pc, batch_statuses, cur_idx, callbacks, ticks, runs, reverting>>

\* the batches a caller hands to CrossChainExecutor::new
ExecVoucher == SdkVoucherRequest("v1", Some(1), 10, <<TokenAmount(USDC, Fixed(100), None)>>, None)

SampleBatch(chain_id, signature, inputs, outs) ==
    LET b == BuildSingleChainBatch(TestEnv,
               [BatchBuilderNew(chain_id, 0) EXCEPT !.input_vouchers = inputs, !.output_vouchers = outs]).value
    IN [b EXCEPT !.user_op.signature = signature]

ExecBatchInputs ==
    { SampleBatch(1, MockSignature, << >>, <<ExecVoucher>>),
      SampleBatch(10, MockSignature, <<ExecVoucher>>, << >>),
      SampleBatch(10, MockSignature, << >>, << >>),
      SampleBatch(1, HexNew, << >>, << >>) }

BatchLists(n) == UNION { [1..k -> ExecBatchInputs] : k \in 0..n }

\* the values of config.exec_timeout_seconds
ExecTimeouts == {0, 1}

InitExec ==
    /\ vouchers = EmptyCoordinator
    /\ phase = "None"
    /\ NoBuilder
    /\ NoExecutor
    /\ last = [op |-> "new"]

ExecutorNew(bs, timeout, rv) ==
    /\ exec_pc = "none"
    /\ phase = "None"
    /\ exec' = Some(CrossChainExecutorNew(
                 NetworkEnvironmentNew(WithExecTimeout(CreateTestConfig(<<1, 10>>), timeout)), bs))
    /\ exec_pc' = "idle"
    /\ reverting' = rv
    /\ last' = [op |-> "CrossChainExecutor::new"]
    /\ UNCHANGED <<coordVars, builderVars, batch_statuses, cur_idx, callbacks, elapsed, ticks, runs>>

NextExec ==
    \/ \E bs \in BatchLists(MaxExecBatches), t \in ExecTimeouts :
          \E rv \in SUBSET { i - 1 : i \in DOMAIN bs } : ExecutorNew(bs, t, rv)
    \/ ExecuteStart
    \/ Tick
    \/ CallbackExecuting
    \/ CallbackDone
    \/ ClockAdvance

SpecExec == InitExec /\ [][NextExec]_vars

\* execute is polled to completion by the caller's runtime and the clock of
\* the machine advances
SpecExecFair ==
    /\ SpecExec
    /\ WF_vars(Tick) /\ WF_vars(CallbackExecuting) /\ WF_vars(CallbackDone) /\ WF_vars(ClockAdvance)

-----------------------------------------------------------------------------
(* Properties of the bare coordinator (SpecCoord) *)

AllConsumed(m) == \A r \in DOMAIN m : IsSome(m[r].dest_batch_index)

\* C3: dest_batch_index is write-once: once an entry's dest_batch_index is
\* Some(d), the entry is still there with dest_batch_index = Some(d) after
\* every later call, also after a mark_consumed with another index.
C3_DestWriteOnce ==
    [][\A r \in DOMAIN vouchers :
         IsSome(vouchers[r].dest_batch_index) =>
           /\ r \in DOMAIN vouchers'
           /\ vouchers'[r].dest_batch_index = vouchers[r].dest_batch_index]_vars

\* a consumed voucher on which mark_consumed was called again with another index
C3_Witness ==
    /\ last.op = "mark_consumed"
    /\ last.ref_id \in DOMAIN vouchers
    /\ IsSome(vouchers[last.ref_id].dest_batch_index)
    /\ vouchers[last.ref_id].dest_batch_index /= Some(last.index)

\* C4: mark_consumed(ref_id, d) returns VoucherNotFound(ref_id) for an
\* unregistered ref_id and VoucherAlreadyUsed(ref_id) for a consumed one, both
\* without changing the coordinator; otherwise it returns Ok and sets
\* dest_batch_index of that entry to Some(d), and nothing else.
C4_MarkConsumedContract ==
    [][last'.op = "mark_consumed" =>
         LET r == last'.ref_id IN
         IF r \notin DOMAIN vouchers
         THEN last'.result = Err(VoucherNotFound(r)) /\ vouchers' = vouchers
         ELSE IF vouchers[r].dest_batch_index /= None
         THEN last'.result = Err(VoucherAlreadyUsed(r)) /\ vouchers' = vouchers
         ELSE /\ last'.result = Ok
              /\ DOMAIN vouchers' = DOMAIN vouchers
              /\ vouchers'[r].dest_batch_index = Some(last'.index)
              /\ \A q \in DOMAIN vouchers : q /= r => vouchers'[q] = vouchers[q]
              /\ vouchers'[r].voucher = vouchers[r].voucher
              /\ vouchers'[r].source_batch_index = vouchers[r].source_batch_index]_vars

\* mark_consumed has refused a voucher that is already used
C4_Witness ==
    /\ last.op = "mark_consumed"
    /\ IsErr(last.result, "VoucherAlreadyUsed")
    /\ Cardinality(DOMAIN vouchers) = 2

\* C5: register of a voucher whose ref_id is already present returns
\* DuplicateVoucher(ref_id) and leaves every entry, and so the number of
\* entries, as it was.
C5_RegisterDuplicate ==
    [][(last'.op = "register" /\ last'.voucher.ref_id \in DOMAIN vouchers) =>
         /\ last'.result = Err(DuplicateVoucher(last'.voucher.ref_id))
         /\ DOMAIN vouchers' = DOMAIN vouchers
         /\ \A q \in DOMAIN vouchers : vouchers'[q] = vouchers[q]]_vars

\* a duplicate register that carried another voucher and another index than
\* the entry that is kept
C5_Witness ==
    /\ last.op = "register"
    /\ IsErr(last.result, "DuplicateVoucher")
    /\ vouchers[last.voucher.ref_id].voucher /= last.voucher
    /\ vouchers[last.voucher.ref_id].source_batch_index /= last.index

\* C6: after a successful register(v, s) of a fresh ref_id r, get(r) returns
\* the entry in its initial state (source_batch_index = s, the four optional
\* fields None) and the entries of the other ref_ids are unchanged.
C6_RegisterInitialState ==
    [][(last'.op = "register" /\ last'.result.ok) =>
         LET r == last'.voucher.ref_id
             g == Get(vouchers', r)
         IN /\ r \notin DOMAIN vouchers
            /\ g.ok
            /\ g.value.voucher = last'.voucher
            /\ g.value.source_batch_index = last'.index
            /\ g.value.dest_batch_index = None
            /\ g.value.voucher_request = None
            /\ g.value.allowed_xlps = None
            /\ g.value.signed_voucher = None
            /\ DOMAIN vouchers' = DOMAIN vouchers \cup {r}
            /\ \A q \in DOMAIN vouchers : vouchers'[q] = vouchers[q]]_vars

\* a fresh ref_id registered under a non-zero index next to a consumed entry
C6_Witness ==
    /\ last.op = "register"
    /\ last.result.ok
    /\ last.index = 1
    /\ \E q \in DOMAIN vouchers : IsSome(vouchers[q].dest_batch_index)

\* C7 as stated: validate_all_consumed returns Ok exactly when every entry is
\* consumed, otherwise VoucherNotConsumed(ref_id, source_chain_id) naming an
\* unconsumed entry and the source chain of its voucher, and never changes the
\* coordinator.
C7_Original ==
    [][last'.op = "validate_all_consumed" =>
         /\ vouchers' = vouchers
         /\ IF AllConsumed(vouchers)
            THEN last'.result = Ok
            ELSE /\ IsErr(last'.result, "VoucherNotConsumed")
                 /\ last'.result.err.ref_id \in DOMAIN vouchers
                 /\ vouchers[last'.result.err.ref_id].dest_batch_index = None
                 /\ vouchers[last'.result.err.ref_id].voucher.source_chain_id
                      = Some(last'.result.err.chain_id)]_vars

\* C7 as amended: the chain reported is the source chain of the voucher, or 0
\* when the voucher's source_chain_id is None.
C7_ValidateAllConsumed ==
    [][last'.op = "validate_all_consumed" =>
         /\ vouchers' = vouchers
         /\ IF AllConsumed(vouchers)
            THEN last'.result = Ok
            ELSE /\ IsErr(last'.result, "VoucherNotConsumed")
                 /\ last'.result.err.ref_id \in DOMAIN vouchers
                 /\ vouchers[last'.result.err.ref_id].dest_batch_index = None
                 /\ LET src == vouchers[last'.result.err.ref_id].voucher.source_chain_id IN
                    IF src = None THEN last'.result.err.chain_id = 0
                    ELSE src = Some(last'.result.err.chain_id)]_vars

\* validate_all_consumed has failed on a coordinator whose first visited
\* entry is consumed and whose second is not
C7_Witness ==
    /\ last.op = "validate_all_consumed"
    /\ IsErr(last.result, "VoucherNotConsumed")
    /\ Len(last.order) = 2
    /\ IsSome(vouchers[last.order[1]].dest_batch_index)
    /\ last.result.err.ref_id = last.order[2]

-----------------------------------------------------------------------------
(* Properties of the executor (SpecExec) *)

\* C1: a batch does not receive its Executing callback before a signed
\* voucher for each of its input_voucher_requests is in the accumulator of
\* the executor (BatchStatusInfo.vouchers), whatever batch list it was given.
C1_ExecutorSafety ==
    exec_pc = "submitted" =>
        LET info == batch_statuses[cur_idx + 1] IN
        \A k \in DOMAIN info.batch.input_voucher_requests :
            info.batch.input_voucher_requests[k].ref_id \in DOMAIN info.vouchers

-----------------------------------------------------------------------------
(* Properties of the builder (Spec) *)

IsBuild(l) == l.op \in {"build_single_chain_batches", "build_and_sign"}

\* XLP collection and translation have filled both fields of every entry
AllTranslated(m) ==
    \A r \in DOMAIN m : IsSome(m[r].allowed_xlps) /\ IsSome(m[r].voucher_request)

\* C2 as stated: after a build that succeeded every registered voucher has
\* dest_batch_index set; after a build with an unconsumed voucher the result
\* is the error VoucherNotConsumed and there is no executor.
C2_Original ==
    IsBuild(last) =>
        /\ last.result.ok => AllConsumed(vouchers)
        /\ ~AllConsumed(vouchers) => IsErr(last.result, "VoucherNotConsumed") /\ exec = None

\* C2 as amended: with an unconsumed voucher the build does not succeed and
\* there is no executor; the error is VoucherNotConsumed when XLP collection
\* and translation succeeded for every registered voucher, and the error or
\* panic of the translation otherwise.
C2_BuildConsumption ==
    IsBuild(last) =>
        /\ last.result.ok => AllConsumed(vouchers)
        /\ ~AllConsumed(vouchers) =>
             /\ ~last.result.ok
             /\ exec = None
             /\ IF AllTranslated(vouchers)
                THEN IsErr(last.result, "VoucherNotConsumed")
                ELSE last.result.err.kind \in {"UnsupportedChain", "InvalidAddress", "Panic"}

\* a build of two registered vouchers, one consumed, has failed with VoucherNotConsumed
C2_Witness ==
    /\ IsBuild(last)
    /\ IsErr(last.result, "VoucherNotConsumed")
    /\ Cardinality(DOMAIN vouchers) = 2
    /\ \E r \in DOMAIN vouchers : IsSome(vouchers[r].dest_batch_index)

\* the places (batch, position) where ref_id r occurs in the list f of the batches bs
Occurrences(bs, f, r) ==
    UNION { { <<i, k>> : k \in { j \in DOMAIN bs[i][f] : bs[i][f][j].ref_id = r } } : i \in DOMAIN bs }


\* the ref_ids that occur in the batches bs
RefsOf(bs) ==
    { r \in RefIds : Occurrences(bs, "out_voucher_requests", r) \cup
                     Occurrences(bs, "input_voucher_requests", r) /= {} }

\* C8: in the batches sealed into an executor, every voucher ref_id occurs
\* exactly once among the out_voucher_requests and exactly once among the
\* input_voucher_requests (one producing batch, one consuming batch, at most
\* once in each list).
C8_OneProducerOneConsumer ==
    IsSome(exec) =>
        \A r \in RefsOf(Unwrap(exec).batches) :
            /\ Cardinality(Occurrences(Unwrap(exec).batches, "out_voucher_requests", r)) = 1
            /\ Cardinality(Occurrences(Unwrap(exec).batches, "input_voucher_requests", r)) = 1

\* an executor whose batches carry both ref_ids
C8_Witness ==
    /\ IsSome(exec)
    /\ RefsOf(Unwrap(exec).batches) = RefIds

\* ref_id is an output voucher of a batch that has ended
RegisteredByEndedBatch(ref_id) ==
    \E i \in DOMAIN batches : \E k \in DOMAIN batches[i].output_vouchers :
        batches[i].output_vouchers[k].ref_id = ref_id

\* ref_id is an input voucher of an ended batch or of the open batch
ConsumedByUseVoucher(ref_id) ==
    \/ \E i \in DOMAIN batches : \E k \in DOMAIN batches[i].input_vouchers :
           batches[i].input_vouchers[k].ref_id = ref_id
    \/ IsSome(cur) /\ \E k \in DOMAIN Unwrap(cur).input_vouchers :
           Unwrap(cur).input_vouchers[k].ref_id = ref_id

\* C9: use_voucher(ref_id) returns the error value VoucherNotFound(ref_id)
\* when no ended batch has registered ref_id and VoucherAlreadyUsed(ref_id)
\* when an earlier use_voucher consumed it; in both cases the coordinator and
\* the open batch are as before the call.  Otherwise it returns Ok.
C9_UseVoucherErrors ==
    [][last'.op = "use_voucher" =>
         LET ref_id == last'.ref_id IN
         IF ~RegisteredByEndedBatch(ref_id)
         THEN last'.result = Err(VoucherNotFound(ref_id)) /\ vouchers' = vouchers /\ cur' = cur
         ELSE IF ConsumedByUseVoucher(ref_id)
         THEN last'.result = Err(VoucherAlreadyUsed(ref_id)) /\ vouchers' = vouchers /\ cur' = cur
         ELSE last'.result = Ok]_vars

\* use_voucher has returned VoucherAlreadyUsed for a voucher consumed before
C9_Witness ==
    /\ last.op = "use_voucher"
    /\ IsErr(last.result, "VoucherAlreadyUsed")
    /\ ConsumedByUseVoucher(last.ref_id)

\* an output voucher of batch b has a ref_id that is registered in m or that an
\* earlier output voucher of b has
HasDuplicate(b, m) ==
    \E k \in DOMAIN b.output_vouchers :
        \/ b.output_vouchers[k].ref_id \in DOMAIN m
        \/ \E j \in 1..(k - 1) : b.output_vouchers[j].ref_id = b.output_vouchers[k].ref_id

\* C10: end_batch of a batch with a voucher request whose ref_id is already
\* registered returns the error value DuplicateVoucher(ref_id) to the caller,
\* and the registrations made before the call are kept.
C10_DuplicateSurfaced ==
    [][(last'.op = "end_batch" /\ IsSome(cur) /\ HasDuplicate(Unwrap(cur), vouchers)) =>
         /\ \E r \in RefIds : last'.result = Err(DuplicateVoucher(r))
         /\ \A q \in DOMAIN vouchers : vouchers'[q] = vouchers[q]]_vars

-----------------------------------------------------------------------------
(* Properties of execute (SpecExec, SpecExecFair) *)

\* the positions in callbacks of the callbacks of type t for batch index i
CallbacksOf(i, t) ==
    { k \in DOMAIN callbacks : callbacks[k].index = i /\ callbacks[k].callback_type = t }

ExecBatches == Unwrap(exec).batches
ExecIndexes == { i - 1 : i \in DOMAIN ExecBatches }
EverySigned == \A i \in DOMAIN ExecBatches : Len(ExecBatches[i].user_op.signature) > 0
NoInputVouchers == \A i \in DOMAIN ExecBatches : ExecBatches[i].input_voucher_requests = << >>
ExecuteReturned == exec_pc = "returned" /\ last.op = "execute"

\* C11: for an executor of n >= 1 signed batches without input vouchers, one
\* call of execute fires no callback of a batch index more than once, and
\* when it returns every index has had exactly one Executing and one Done.
C11_ExactlyOnce ==
    (IsSome(exec) /\ Len(ExecBatches) >= 1 /\ EverySigned /\ NoInputVouchers) =>
        \A i \in ExecIndexes : \A t \in {"Executing", "Done"} :
            /\ Cardinality(CallbacksOf(i, t)) <= 1
            /\ ExecuteReturned => Cardinality(CallbacksOf(i, t)) = 1

\* C12: a Done callback of batch index i comes after an Executing callback
\* of i, and no Executing callback of i comes after its Done.
C12_ExecutingThenDone ==
    \A k \in DOMAIN callbacks :
        callbacks[k].callback_type = "Done" =>
            /\ \E j \in 1..(k - 1) : j \in CallbacksOf(callbacks[k].index, "Executing")
            /\ \A j \in (k + 1)..Len(callbacks) : j \notin CallbacksOf(callbacks[k].index, "Executing")

\* C13: when execute_single_batch has returned to the loop, the batch it
\* executed is no longer Pending (it is Done or Failed), so that the loop
\* reaches the all-done state and returns Ok.
C13_BatchLeavesPending ==
    (exec_pc = "loop" /\ callbacks /= << >>) =>
        batch_statuses[cur_idx + 1].status \in {"Done", "Failed"}

\* batch 1 has batch 0's output voucher as input
ProducerConsumer ==
    /\ Len(ExecBatches) = 2
    /\ \E k \in DOMAIN ExecBatches[1].out_voucher_requests :
       \E j \in DOMAIN ExecBatches[2].input_voucher_requests :
           ExecBatches[1].out_voucher_requests[k].ref_id = ExecBatches[2].input_voucher_requests[j].ref_id

\* C14: in a signed two-batch operation where batch 1 consumes a voucher of
\* batch 0, batch 1 has received Executing and Done when execute returns.
C14_ConsumerExecuted ==
    (IsSome(exec) /\ EverySigned /\ ProducerConsumer /\ ExecuteReturned) =>
        CallbacksOf(1, "Executing") /= {} /\ CallbacksOf(1, "Done") /= {}

C16_RevertMarksFailed ==
    /\ \A k \in DOMAIN callbacks :
           callbacks[k].index \in reverting => callbacks[k].callback_type /= "Done"
    /\ (exec_pc = "loop" /\ callbacks /= << >> /\ cur_idx \in reverting) =>
           /\ batch_statuses[cur_idx + 1].status = "Failed"
           /\ callbacks[Len(callbacks)].callback_type = "Failed"

\* C17: while the executor holds a batch with an empty signature, execute
\* fires no callback and executes no batch, and it returns UserOpNotSigned.
C17_UnsignedRejected ==
    (IsSome(exec) /\ ~EverySigned) =>
        /\ callbacks = << >>
        /\ exec_pc \in {"idle", "returned"}
        /\ ExecuteReturned => last.result = Err(UserOpNotSigned)

\* execute has returned UserOpNotSigned for a signed batch followed by an unsigned one
C17_Witness ==
    /\ ExecuteReturned
    /\ last.result = Err(UserOpNotSigned)
    /\ Len(ExecBatches) = 2
    /\ Len(ExecBatches[1].user_op.signature) > 0
    /\ Len(ExecBatches[2].user_op.signature) = 0

-----------------------------------------------------------------------------
(* Properties of the builder: build once, batch indexes, unconfigured chains *)

\* C18: when a build of a builder has succeeded, the next build attempt on
\* the same builder fails with BuilderAlreadyBuilt.
C18_BuiltOnce ==
    [][(IsBuild(last) /\ last.result.ok /\ IsBuild(last')) =>
          last'.result = Err(BuilderAlreadyBuilt)]_vars

\* the emitted batches bs are the ended batches, in end_batch order
InEndBatchOrder(bs) ==
    /\ Len(bs) = Len(batches)
    /\ \A i \in DOMAIN bs :
          /\ bs[i].chain_id = batches[i].chain_id
          /\ bs[i].input_voucher_requests = batches[i].input_vouchers
          /\ bs[i].out_voucher_requests = batches[i].output_vouchers

\* C19: the i-th ended batch (0-based) has batch index i, its output
\* vouchers are registered under source index i and its input vouchers are
\* consumed under destination index i; a successful end_batch appends the
\* open batch to the ended batches and no other call changes them; the
\* emitted SingleChainBatches are in end_batch order.
C19_BatchIndexIsPosition ==
    /\ [](/\ \A i \in DOMAIN batches :
               /\ batches[i].batch_index = i - 1
               /\ \A k \in DOMAIN batches[i].output_vouchers :
                      vouchers[batches[i].output_vouchers[k].ref_id].source_batch_index = i - 1
               /\ \A k \in DOMAIN batches[i].input_vouchers :
                      vouchers[batches[i].input_vouchers[k].ref_id].dest_batch_index = Some(i - 1)
          /\ (last.op = "build_single_chain_batches" /\ last.result.ok) => InEndBatchOrder(last.result.value)
          /\ IsSome(exec) => InEndBatchOrder(Unwrap(exec).batches))
    /\ [][IF last'.op = "end_batch" /\ last'.result.ok
          THEN batches' = Append(batches, Unwrap(cur))
          ELSE batches' = batches]_vars

\* an executor of two batches, the second consuming a voucher
C19_Witness ==
    /\ IsSome(exec)
    /\ Len(batches) = 2
    /\ batches[2].input_vouchers /= << >>

\* chain_id has a ChainInfo in the configuration of the network environment
Configured(chain_id) ==
    \E i \in DOMAIN network_env.config.chain_infos :
        network_env.config.chain_infos[i].chain_id = chain_id

Unconfigured == { i \in DOMAIN batches : ~Configured(batches[i].chain_id) }

\* the first ended batch on an unconfigured chain
FirstUnconfigured == CHOOSE i \in Unconfigured : \A j \in Unconfigured : i <= j

\* every action of the ended batches 1..n encodes on the chain of its batch
ActionsEncode(n) ==
    \A i \in 1..n : \A k \in DOMAIN batches[i].actions :
        EncodeCall(batches[i].actions[k], batches[i].chain_id).ok

\* C20 as stated: start_batch never fails, and a build with an ended batch on
\* an unconfigured chain fails with UnsupportedChain of such a chain and
\* there is no executor.
C20_Original ==
    /\ last.op = "start_batch" => last.result.ok
    /\ (IsBuild(last) /\ Unconfigured /= {}) =>
          /\ \E i \in Unconfigured : last.result = Err(UnsupportedChain(batches[i].chain_id))
          /\ exec = None

\* C20 as amended: the build does not succeed and there is no executor; the
\* error is UnsupportedChain of the first such batch when the translation of
\* the vouchers and the all-consumed validation succeed and every action of
\* that batch and of the batches before it encodes.
C20_UnsupportedChainAtBuild ==
    /\ last.op = "start_batch" => last.result.ok
    /\ (IsBuild(last) /\ Unconfigured /= {}) =>
          /\ ~last.result.ok
          /\ exec = None
          /\ (AllTranslated(vouchers) /\ AllConsumed(vouchers) /\ ActionsEncode(FirstUnconfigured)) =>
                last.result = Err(UnsupportedChain(batches[FirstUnconfigured].chain_id))

\* a build with a consumed voucher has failed on the unconfigured chain 42161
C20_Witness ==
    /\ IsBuild(last)
    /\ Unconfigured /= {}
    /\ DOMAIN vouchers /= {}
    /\ AllTranslated(vouchers) /\ AllConsumed(vouchers)
    /\ last.result = Err(UnsupportedChain(42161))

-----------------------------------------------------------------------------
(* The source chain of a voucher *)

\* the ended batches followed by the open batch
AllBatches == batches \o cur

\* C21: add_voucher_request appends the caller's request with source_chain_id
\* replaced by the chain of the batch, whatever the caller supplied, and
\* changes nothing else of the batch; so every output voucher of a batch and
\* every registered voucher has the chain of its source batch as its
\* source_chain_id.
C21_SourceChainIsBatchChain ==
    /\ [](/\ \A i \in DOMAIN AllBatches : \A k \in DOMAIN AllBatches[i].output_vouchers :
                AllBatches[i].output_vouchers[k].source_chain_id = Some(AllBatches[i].chain_id)
          /\ \A r \in DOMAIN vouchers :
                /\ vouchers[r].source_batch_index + 1 \in DOMAIN AllBatches
                /\ vouchers[r].voucher.source_chain_id =
                      Some(AllBatches[vouchers[r].source_batch_index + 1].chain_id))
    /\ [][last'.op = "add_voucher_request" =>
            /\ IsSome(cur) /\ IsSome(cur')
            /\ Unwrap(cur') = [Unwrap(cur) EXCEPT !.output_vouchers =
                   Append(@, [last'.request EXCEPT !.source_chain_id = Some(Unwrap(cur).chain_id)])]]_vars

\* a registered voucher whose caller supplied source chain 42161, added to a
\* batch on chain 10
C21_Witness ==
    \E r \in DOMAIN vouchers :
        /\ vouchers[r].voucher.target = Some(3333)
        /\ vouchers[r].voucher.source_chain_id = Some(10)
        /\ batches[vouchers[r].source_batch_index + 1].chain_id = 10

\* the destination chain of voucher request v differs from its source chain
CrossesChains(v) == v.source_chain_id /= Some(v.destination_chain_id)

\* the vouchers of the emitted batches bs cross chains
EmittedCrossChains(bs) ==
    \A i \in DOMAIN bs :
        /\ \A k \in DOMAIN bs[i].out_voucher_requests : CrossesChains(bs[i].out_voucher_requests[k])
        /\ \A k \in DOMAIN bs[i].input_voucher_requests : CrossesChains(bs[i].input_voucher_requests[k])

\* C22: every voucher registered in the coordinator of a builder and every
\* voucher of an emitted batch has a destination chain different from its
\* source chain.
C22_DestinationDiffers ==
    /\ \A r \in DOMAIN vouchers : CrossesChains(vouchers[r].voucher)
    /\ (IsBuild(last) /\ last.result.ok /\ last.op = "build_single_chain_batches") =>
          EmittedCrossChains(last.result.value)
    /\ IsSome(exec) => EmittedCrossChains(Unwrap(exec).batches)

-----------------------------------------------------------------------------
(* The optional fields of a coordinator entry *)

\* the field of an entry that setter op writes
SetterField(op) ==
    IF op = "set_voucher_request" THEN "voucher_request"
    ELSE IF op = "set_allowed_xlps" THEN "allowed_xlps"
    ELSE "signed_voucher"

\* C23: voucher_request, allowed_xlps and signed_voucher are write-once: a
\* setter called on a ref_id whose field already holds a value leaves the
\* stored value as it is.
C23_SettersWriteOnce ==
    [][(/\ last'.op \in {"set_voucher_request", "set_allowed_xlps", "set_signed_voucher"}
        /\ last'.ref_id \in DOMAIN vouchers
        /\ IsSome(vouchers[last'.ref_id][SetterField(last'.op)]))
       => vouchers'[last'.ref_id][SetterField(last'.op)] = vouchers[last'.ref_id][SetterField(last'.op)]]_vars

-----------------------------------------------------------------------------
(* The order in which a build visits the vouchers *)

\* the ref_ids of the output vouchers of the batches bs from index i on, in
\* the order end_batch registers them
RECURSIVE RegistrationOrder(_, _)
RegistrationOrder(bs, i) ==
    IF i > Len(bs) THEN << >>
    ELSE [k \in DOMAIN bs[i].output_vouchers |-> bs[i].output_vouchers[k].ref_id]
         \o RegistrationOrder(bs, i + 1)

\* C24: a build visits the vouchers of the coordinator in the order in which
\* they were registered.
C24_VisitsInRegistrationOrder ==
    [][IsBuild(last') => last'.order = RegistrationOrder(batches, 1)]_vars

-----------------------------------------------------------------------------
(* Signing *)

\* the number of the first call at which the signer of acct fails while it
\* signs n operations, 0 if it signs them all
FailingCall(acct, n) ==
    IF acct.kind = "BaseAccount" /\ acct.signer.fails_at \in 1..n THEN acct.signer.fails_at ELSE 0

\* C25: sign_user_ops returns as many operations as it was given, the i-th
\* equal to the i-th input in every field except signature; when signing one
\* of the operations fails the call returns that error and no list.
C25_SignPreserves ==
    last.op = "sign_user_ops" =>
        IF FailingCall(Unwrap(account), Len(last.user_ops)) = 0
        THEN /\ last.result.ok
             /\ Len(last.result.value) = Len(last.user_ops)
             /\ \A i \in DOMAIN last.user_ops :
                    [last.result.value[i] EXCEPT !.signature = last.user_ops[i].signature] = last.user_ops[i]
        ELSE /\ ~last.result.ok
             /\ "value" \notin DOMAIN last.result

\* a base account has signed two operations for different chains, one of
\* which carried an earlier signature
C25_Witness ==
    /\ last.op = "sign_user_ops"
    /\ Unwrap(account).kind = "BaseAccount"
    /\ last.result.ok
    /\ Len(last.user_ops) = 2
    /\ last.user_ops[1].chain_id /= last.user_ops[2].chain_id
    /\ last.user_ops[1].signature /= HexNew
    /\ last.result.value[1].signature = SignerSignature

-----------------------------------------------------------------------------
(* The call data of an emitted batch *)

\* the emitted batches of the last successful build
Emitted ==
    IF last.op = "build_single_chain_batches" THEN last.result.value ELSE Unwrap(exec).batches

\* C26: the call_data of the user operation of each emitted batch is what the
\* account's encode_calls returns for the chain of the batch and the calls of
\* its actions, concatenated in add_action order.
C26_CallDataEncodesCalls ==
    (IsBuild(last) /\ last.result.ok) =>
        \A i \in DOMAIN Emitted :
            Emitted[i].user_op.call_data =
                EncodeCalls(Unwrap(account), batches[i].chain_id,
                            EncodeActions(batches[i].actions, batches[i].chain_id, 1).value).value

-----------------------------------------------------------------------------
(* The executor build_and_sign returns *)

-----------------------------------------------------------------------------
(* Translation of a voucher *)

\* the amount the specification gives token amount t
ResolvedAmount(t) ==
    IF t.amount.kind = "Fixed" THEN t.amount.value
    ELSE IF t.min_provider_deposit = None THEN 1
    ELSE Unwrap(t.min_provider_deposit)

\* C28: a successful translation has one origination asset and one
\* destination asset per token, in token order: the i-th asset on each side
\* is the i-th token at its address on that side's chain, with the fixed
\* amount, or min_provider_deposit (1 when absent) for a runtime amount.
C28_AssetsFollowTokens ==
    (last.op = "sdk_to_voucher_request" /\ last.result.ok) =>
        LET tokens == last.request.tokens
            o == last.result.value.origination
            d == last.result.value.destination
        IN
        /\ Len(o.assets) = Len(tokens)
        /\ Len(d.assets) = Len(tokens)
        /\ \A i \in DOMAIN tokens :
              /\ o.assets[i].amount = ResolvedAmount(tokens[i])
              /\ d.assets[i].amount = ResolvedAmount(tokens[i])
              /\ o.assets[i].erc20_token = tokens[i].token.deployments[o.chain_id]
              /\ d.assets[i].erc20_token = tokens[i].token.deployments[d.chain_id]

\* a translated voucher from chain 1 to chain 10 with two different tokens,
\* a runtime amount with a minimum deposit and one without
C28_Witness ==
    /\ last.op = "sdk_to_voucher_request"
    /\ last.result.ok
    /\ last.request.source_chain_id = Some(1)
    /\ last.request.destination_chain_id = 10
    /\ Len(last.request.tokens) = 2
    /\ last.request.tokens[1] = TokenAmount(DAI, Runtime("amt"), Some(5))
    /\ last.request.tokens[2] = TokenAmount(USDC, Runtime("amt"), None)
    /\ last.result.value.origination.assets = <<Asset(2, 5), Asset(1, 1)>>
    /\ last.result.value.destination.assets = <<Asset(1, 5), Asset(2, 1)>>

\* a per-chain mapping the translation of request v needs is missing: the
\* account on the source chain, the account on the destination chain when v
\* has no target, a paymaster, or a token on either chain
MissingMapping(env, acct, v) ==
    LET s == Unwrap(v.source_chain_id)
        d == v.destination_chain_id
    IN
    \/ s \notin DOMAIN acct.addresses
    \/ v.target = None /\ d \notin DOMAIN acct.addresses
    \/ ~Configured(s)
    \/ ~Configured(d)
    \/ \E i \in DOMAIN v.tokens : {s, d} \ DOMAIN v.tokens[i].token.deployments /= {}

\* C29: the translation of a voucher with a missing mapping returns the
\* error InvalidAddress; it does not panic and returns no other error kind.
C29_MissingMappingIsInvalidAddress ==
    (last.op = "sdk_to_voucher_request" /\ MissingMapping(network_env, Unwrap(account), last.request)) =>
        IsErr(last.result, "InvalidAddress")

-----------------------------------------------------------------------------
(* XLP selection *)

\* C30: after a successful build every voucher has between min_xlps and
\* max_xlps allowed XLPs; a build with a voucher for which fewer than
\* min_xlps are kept fails.
C30_MinXlpsEnforced ==
    (IsBuild(last) /\ last.result.ok) =>
        \A r \in DOMAIN vouchers :
            /\ IsSome(vouchers[r].allowed_xlps)
            /\ Len(Unwrap(vouchers[r].allowed_xlps)) >= network_env.config.xlp_selection_config.min_xlps
            /\ Len(Unwrap(vouchers[r].allowed_xlps)) <= network_env.config.xlp_selection_config.max_xlps

-----------------------------------------------------------------------------
(* A voucher request added as an action *)

\* C31: a VoucherRequestAction encodes to no call, and when its batch is
\* ended its voucher is registered in the coordinator under the index of
\* that batch.
C31_ActionVoucherRegistered ==
    [][(last'.op = "end_batch" /\ last'.result.ok) =>
          \A k \in DOMAIN Unwrap(cur).actions :
              LET a == Unwrap(cur).actions[k] IN
              a.kind = "VoucherRequest" =>
                  /\ EncodeCall(a, Unwrap(cur).chain_id) = OkWith(<< >>)
                  /\ a.voucher_request.ref_id \in DOMAIN vouchers'
                  /\ vouchers'[a.voucher_request.ref_id].source_batch_index = Unwrap(cur).batch_index]_vars

-----------------------------------------------------------------------------
(* Runtime variable names *)

-----------------------------------------------------------------------------
(* Fee numerators *)

\* C33: the numerator of the percentage k * 0.0001 is k, and each field of a
\* fee rule is the numerator of its configured percentage.
C33_NumeratorIsFloor ==
    /\ last.op = "fee_percent_to_numerator" => last.result = last.percent
    /\ last.op = "fee_rule" =>
          /\ last.result.start_fee_percent_numerator = last.percent
          /\ last.result.max_fee_percent_numerator = last.percent
          /\ last.result.fee_increase_per_second = last.percent
          /\ last.result.unspent_voucher_fee = last.percent

-----------------------------------------------------------------------------
(* The chain on which a voucher is consumed *)

\* C34: use_voucher succeeds only in a batch on the destination chain of the
\* voucher, so every input voucher of an emitted batch has the chain of the
\* batch as its destination chain.
C34_ConsumedOnDestination ==
    /\ (last.op = "use_voucher" /\ last.result.ok) =>
          vouchers[last.ref_id].voucher.destination_chain_id = Unwrap(cur).chain_id
    /\ (IsBuild(last) /\ last.result.ok) =>
          \A i \in DOMAIN Emitted : \A k \in DOMAIN Emitted[i].input_voucher_requests :
              Emitted[i].input_voucher_requests[k].destination_chain_id = Emitted[i].chain_id

-----------------------------------------------------------------------------
(* Calling execute again *)

\* C35: a call of execute on an executor of signed batches that was executed
\* before returns ExecutionAlreadyStarted, and no callback fires during it.
C35_ExecuteOnce ==
    /\ [][(runs' = runs + 1 /\ runs >= 1 /\ AllSigned(Unwrap(exec).batches))
            => last'.result = Err(ExecutionAlreadyStarted)]_vars
    /\ [](runs >= 2 => callbacks = << >>)

-----------------------------------------------------------------------------
(* A voucher is consumed after the batch that produced it *)

\* the ref_ids of the output vouchers of batch b
OutputRefs(b) == { b.output_vouchers[k].ref_id : k \in DOMAIN b.output_vouchers }

\* C36: a consumed voucher has a source batch index below its destination
\* batch index; use_voucher on an output of the open batch that no ended
\* batch registered returns VoucherNotFound; the first batch has no input
\* vouchers.
C36_ConsumedAfterProduced ==
    /\ [](/\ \A r \in DOMAIN vouchers :
                IsSome(vouchers[r].dest_batch_index) =>
                    vouchers[r].source_batch_index < Unwrap(vouchers[r].dest_batch_index)
          /\ AllBatches /= << >> => AllBatches[1].input_vouchers = << >>
          /\ (IsBuild(last) /\ last.result.ok /\ Emitted /= << >>) =>
                Emitted[1].input_voucher_requests = << >>)
    /\ [][(/\ last'.op = "use_voucher"
           /\ last'.ref_id \in OutputRefs(Unwrap(cur))
           /\ last'.ref_id \notin DOMAIN vouchers)
          => /\ last'.result = Err(VoucherNotFound(last'.ref_id))
             /\ vouchers' = vouchers]_vars

\* the second batch has consumed a voucher of the first and has then been
\* refused its own output
C36_Witness ==
    /\ last.op = "use_voucher"
    /\ IsSome(cur)
    /\ last.ref_id \in OutputRefs(Unwrap(cur))
    /\ last.result = Err(VoucherNotFound(last.ref_id))
    /\ \E r \in DOMAIN vouchers : vouchers[r].dest_batch_index = Some(1)

-----------------------------------------------------------------------------
(* The voucher lists of the emitted batches and the coordinator *)

\* the ref_ids of the voucher requests in the sequence q
RefsIn(q) == { q[k].ref_id : k \in DOMAIN q }

\* C37: after a successful build, voucher r is an output voucher of emitted
\* batch i exactly when the coordinator entry of r has source batch index i,
\* and an input voucher of batch j exactly when the entry has destination
\* batch index j; every input voucher of an emitted batch is an output
\* voucher of an earlier emitted batch.
C37_ListsAgreeWithCoordinator ==
    (IsBuild(last) /\ last.result.ok) =>
        /\ \A r \in DOMAIN vouchers : vouchers[r].source_batch_index + 1 \in DOMAIN Emitted
        /\ \A i \in DOMAIN Emitted :
              /\ \A r \in RefIds :
                    /\ r \in RefsIn(Emitted[i].out_voucher_requests) <=>
                          (r \in DOMAIN vouchers /\ vouchers[r].source_batch_index = i - 1)
                    /\ r \in RefsIn(Emitted[i].input_voucher_requests) <=>
                          (r \in DOMAIN vouchers /\ vouchers[r].dest_batch_index = Some(i - 1))
              /\ \A k \in DOMAIN Emitted[i].input_voucher_requests :
                    \E j \in 1..(i - 1) : \E n \in DOMAIN Emitted[j].out_voucher_requests :
                        Emitted[j].out_voucher_requests[n] = Emitted[i].input_voucher_requests[k]

\* build_and_sign has emitted two batches, the second with an input voucher
\* that the first produced
C37_Witness ==
    /\ last.op = "build_and_sign"
    /\ last.result.ok
    /\ Len(Emitted) = 2
    /\ Emitted[1].out_voucher_requests /= << >>
    /\ Emitted[2].input_voucher_requests = Emitted[1].out_voucher_requests

-----------------------------------------------------------------------------
(* The executor of build_and_sign and the batches of the builder *)

\* C38: build_and_sign never drops or misaligns a batch.  When it returns an
\* executor, the executor has batch_count() batches and its i-th batch
\* carries the i-th built UserOperation with a signature; when the account's
\* sign_user_ops returns a list of another length than it was given,
\* build_and_sign fails.
C38_NoBatchDropped ==
    (last.op = "build_and_sign" /\ last.result.ok) =>
        /\ Len(Unwrap(exec).batches) = Len(batches)
        /\ \A i \in DOMAIN Unwrap(exec).batches :
              /\ Unwrap(exec).batches[i].user_op.signature /= HexNew
              /\ [Unwrap(exec).batches[i].user_op EXCEPT !.signature = HexNew] =
                     CreateUserOp(network_env, batches[i]).value

-----------------------------------------------------------------------------
(* The order of the steps of a build *)

\* the Result of translating the registered voucher r
Translation(r) ==
    CHOOSE t \in { SdkToVoucherRequest(network_env, account, vouchers, vouchers[r].voucher, now) :
                     now \in ClockReadings } : TRUE

Untranslatable == { r \in DOMAIN vouchers : ~Translation(r).ok }
Unconsumed == { r \in DOMAIN vouchers : ~IsSome(vouchers[r].dest_batch_index) }
UnsupportedBatchChain == \E i \in DOMAIN batches : ~EntryPoint(network_env, batches[i].chain_id).ok

\* the first element of S in the iteration order of the build
FirstIn(order, S) ==
    order[CHOOSE k \in DOMAIN order : order[k] \in S /\ \A j \in 1..(k - 1) : order[j] \notin S]

\* a failed build returns no batch list and leaves no executor
NothingReturned == ~last.result.ok => ("value" \notin DOMAIN last.result /\ exec = None)

-----------------------------------------------------------------------------
(* Chain resolution in the network environment.  CrossChainConfig::new takes *)
(* any Vec<ChainInfo>; nothing rejects two entries with one chain_id.        *)

\* the longest chain_infos list of a configuration
MaxChainInfos == 2

\* a ChainInfo for chain c as create_test_config makes it, and one with
\* another rpc url, entry point and paymaster
SampleChainInfos ==
    { TestChainInfo(c) : c \in {1, 10} } \cup
    { ChainInfo(c, <<"https://other-rpc", c>>, EntryPointV7 + 1, TestPaymaster + 1) : c \in {1, 10} }

\* the chain ids looked up: the configured ones and 999, as in the tests
LookupChainIds == {1, 10, 999}

InitNetwork ==
    /\ vouchers = EmptyCoordinator
    /\ phase = "Network"
    /\ network_env \in { NetworkEnvironmentNew(CrossChainConfigNew(q)) :
                           q \in SeqsUpTo(SampleChainInfos, MaxChainInfos) }
    /\ account = None
    /\ batches = << >>
    /\ cur = None
    /\ is_built = FALSE
    /\ NoExecutor
    /\ last = [op |-> "new"]

RpcUrlCall(chain_id) ==
    /\ phase = "Network"
    /\ last' = [op |-> "rpc_url", chain_id |-> chain_id, result |-> RpcUrl(network_env, chain_id)]
    /\ UNCHANGED <<vouchers, phase, network_env, account, batches, cur, is_built, execVars>>

EntryPointCall(chain_id) ==
    /\ phase = "Network"
    /\ last' = [op |-> "entry_point", chain_id |-> chain_id, result |-> EntryPoint(network_env, chain_id)]
    /\ UNCHANGED <<vouchers, phase, network_env, account, batches, cur, is_built, execVars>>

PaymasterCall(chain_id) ==
    /\ phase = "Network"
    /\ last' = [op |-> "paymaster", chain_id |-> chain_id, result |-> Paymaster(network_env, chain_id)]
    /\ UNCHANGED <<vouchers, phase, network_env, account, batches, cur, is_built, execVars>>

NextNetwork ==
    \/ \E c \in LookupChainIds : RpcUrlCall(c)
    \/ \E c \in LookupChainIds : EntryPointCall(c)
    \/ \E c \in LookupChainIds : PaymasterCall(c)

SpecNetwork == InitNetwork /\ [][NextNetwork]_vars

\* C40: chain resolution is consistent for every configuration, also one that
\* lists a chain_id twice: after a lookup of chain c, rpc_url(c),
\* entry_point(c) and paymaster(c) are Ok exactly when c appears in
\* chain_infos and UnsupportedChain(c) otherwise, the lookup returned what
\* the function gives, and the three values are the rpc_url, entry_point and
\* paymaster of one ChainInfo entry for c.
C40_ConsistentResolution ==
    last.op \in {"rpc_url", "entry_point", "paymaster"} =>
        LET c == last.chain_id
            infos == network_env.config.chain_infos
            entries == { i \in DOMAIN infos : infos[i].chain_id = c }
            u == RpcUrl(network_env, c)
            e == EntryPoint(network_env, c)
            p == Paymaster(network_env, c)
        IN
        /\ last.result = (IF last.op = "rpc_url" THEN u ELSE IF last.op = "entry_point" THEN e ELSE p)
        /\ entries = {} => (u = Err(UnsupportedChain(c)) /\ e = u /\ p = u)
        /\ entries /= {} =>
              \E i \in entries :
                  /\ u = OkWith(infos[i].rpc_url)
                  /\ e = OkWith(infos[i].entry_point)
                  /\ p = OkWith(infos[i].paymaster)

====
